---- MODULE Spec2Model ----
(***************************************************************************)
(* ProfileAuditor: resume upload, claim extraction, verification against   *)
(* GitHub / Twitter / LinkedIn and the reality score.                      *)
(*                                                                         *)
(* Python values are modelled as follows.  A dict is a record; a key that  *)
(* is absent reads as the default the code passes to .get().  A float is   *)
(* an exact rational [n, d] in lowest terms with d > 0.  Strings that the  *)
(* code only compares or stores are TLA+ strings; a text of which the code *)
(* only tests emptiness is represented by its class.                       *)
(***************************************************************************)
EXTENDS Integers, Sequences, FiniteSets, TLC

\* ---------------------------------------------------------------- bounds
MaxClaims == 2
MaxProjects == 1

\* ------------------------------------------------------------- universes
ResumeIds == {"r1"}
SkillNames == {"Python", "Git"}
ProjectNames == {"Questfi"}
Sources == {"github", "twitter", "linkedin"}

SeqUpTo(S, n) == UNION {[1..k -> S] : k \in 0..n}
Range(s) == {s[i] : i \in 1..Len(s)}
In(x, s) == \E i \in 1..Len(s) : s[i] = x
Repeat(x, n) == [i \in 1..n |-> x]

\* ------------------------------------------------------ exact arithmetic
Abs(x) == IF x < 0 THEN -x ELSE x
RECURSIVE GCD(_, _)
GCD(a, b) == IF b = 0 THEN a ELSE GCD(b, a % b)
Rat(n, d) ==
    LET g == GCD(Abs(n), d)
    IN  [n |-> n \div g, d |-> d \div g]
RInt(k) == [n |-> k, d |-> 1]
RAdd(a, b) == Rat(a.n * b.d + b.n * a.d, a.d * b.d)
RMul(a, b) == Rat(a.n * b.n, a.d * b.d)
RLE(a, b) == a.n * b.d <= b.n * a.d
RMin(a, b) == IF RLE(b, a) THEN b ELSE a
RMax(a, b) == IF RLE(a, b) THEN b ELSE a
IMin(a, b) == IF b < a THEN b ELSE a

\* --------------------------------------------------------------- storage
PutShared(store, key, value) == [k \in DOMAIN store \cup {key} |-> value]
Put(store, key, value) ==
    [k \in DOMAIN store \cup {key} |-> IF k = key THEN value ELSE store[k]]
NoStore == [k \in {} |-> 0]

\* A source snapshot (the dict a verify_*_claims call returns, or {} when
\* the source was skipped).  present = the dict is non-empty; error = it has
\* the key "error".  repositories / languages / tweets hold the length of
\* the list (scoring reads nothing else of them); profile holds the
\* truthiness of the three profile fields the scoring reads; proof holds
\* result["proof"], per claim kind a mapping from claim to its proof list.
NoProof == [skills |-> NoStore, projects |-> NoStore]
NoProfile == [name |-> FALSE, headline |-> FALSE, skills |-> FALSE]
EmptySnapshot ==
    [present |-> FALSE, error |-> FALSE,
     verified_skills |-> <<>>, verified_projects |-> <<>>,
     repositories |-> 0, languages |-> 0, contributions |-> 0,
     tweets |-> 0, profile |-> NoProfile, proof |-> NoProof]
ErrorSnapshot == [EmptySnapshot EXCEPT !.present = TRUE, !.error = TRUE]

\* ------------------------------------------------------- scoring_service
GithubWeight == Rat(5, 10)
TwitterWeight == Rat(3, 10)
LinkedinWeight == Rat(2, 10)
SkillsWeight == Rat(6, 10)
ProjectsWeight == Rat(4, 10)

calculate_github_score_noerrcheck(github_results) ==
    LET repo_score == IMin(25, github_results.repositories * 5)
        language_score == IMin(25, github_results.languages * 5)
        contribution_score == RMin(RInt(20), Rat(github_results.contributions, 25))
        verification_score ==
            IMin(30, (Len(github_results.verified_skills)
                      + Len(github_results.verified_projects)) * 3)
    IN  RAdd(RInt(repo_score + language_score + verification_score),
             contribution_score)

calculate_github_score_nocap(github_results) ==
    IF github_results.error THEN RInt(0)
    ELSE IF ~github_results.present THEN RInt(0)
    ELSE
    LET repo_score == github_results.repositories * 5
        language_score == IMin(25, github_results.languages * 5)
        contribution_score == RMin(RInt(20), Rat(github_results.contributions, 25))
        verification_score ==
            IMin(30, (Len(github_results.verified_skills)
                      + Len(github_results.verified_projects)) * 3)
    IN  RAdd(RInt(repo_score + language_score + verification_score),
             contribution_score)

calculate_github_score_floordiv(github_results) ==
    IF github_results.error THEN RInt(0)
    ELSE IF ~github_results.present THEN RInt(0)
    ELSE
    LET repo_score == IMin(25, github_results.repositories * 5)
        language_score == IMin(25, github_results.languages * 5)
        contribution_score == IMin(20, github_results.contributions \div 25)
        verification_score ==
            IMin(30, (Len(github_results.verified_skills)
                      + Len(github_results.verified_projects)) * 3)
    IN  RInt(repo_score + language_score + verification_score + contribution_score)

calculate_github_score(github_results) ==
    IF github_results.error THEN RInt(0)
    ELSE IF ~github_results.present THEN RInt(0)
    ELSE
    LET repo_score == IMin(25, github_results.repositories * 5)
        language_score == IMin(25, github_results.languages * 5)
        contribution_score == RMin(RInt(20), Rat(github_results.contributions, 25))
        verification_score ==
            IMin(30, (Len(github_results.verified_skills)
                      + Len(github_results.verified_projects)) * 3)
    IN  RAdd(RInt(repo_score + language_score + verification_score),
             contribution_score)

calculate_twitter_score(twitter_results) ==
    IF twitter_results.error \/ ~twitter_results.present THEN RInt(0)
    ELSE
    LET tweet_score == IMin(40, twitter_results.tweets * 8)
        verification_score ==
            IMin(60, (Len(twitter_results.verified_skills)
                      + Len(twitter_results.verified_projects)) * 6)
    IN  RInt(tweet_score + verification_score)

calculate_linkedin_score(linkedin_results) ==
    IF linkedin_results.error THEN RInt(0)
    ELSE IF ~linkedin_results.present THEN RInt(0)
    ELSE
    LET profile == linkedin_results.profile
        profile_score ==
            (IF profile.name THEN 10 ELSE 0)
            + (IF profile.headline THEN 10 ELSE 0)
            + (IF profile.skills THEN 20 ELSE 0)
        verification_score ==
            IMin(60, (Len(linkedin_results.verified_skills)
                      + Len(linkedin_results.verified_projects)) * 6)
    IN  RInt(profile_score + verification_score)

calculate_skills_score_of_total(verified_skills, unverified_skills) ==
    LET total_skills == Len(verified_skills) + Len(unverified_skills)
    IN  IF total_skills = 0 THEN RInt(100)
        ELSE RMul(Rat(Len(unverified_skills), total_skills), RInt(100))

calculate_skills_score(verified_skills, unverified_skills) ==
    LET total_skills == Len(verified_skills) + Len(unverified_skills)
    IN  IF total_skills = 0 THEN RInt(0)
        ELSE RMul(Rat(Len(verified_skills), total_skills), RInt(100))

calculate_projects_score(verified_projects, unverified_projects) ==
    LET total_projects == Len(verified_projects) + Len(unverified_projects)
    IN  IF total_projects = 0 THEN RInt(0)
        ELSE RMul(Rat(Len(verified_projects), total_projects), RInt(100))

\* _call_gemini_for_score: reply is what the model call produced.  ok = the
\* SDK is importable, the call did not raise and the reply text holds a
\* number matching \b(100|\d{1,2})\b; n = that number.  NoAi stands for
\* the return value None.
NoAi == [some |-> FALSE, value |-> 0]
call_gemini_for_score(reply) ==
    IF ~reply.ok THEN NoAi
    ELSE [some |-> TRUE, value |-> IF 100 < reply.n THEN 100
                                   ELSE IF reply.n < 0 THEN 0 ELSE reply.n]

RuleBasedFinal_skillsonly(breakdown) ==
    LET content_score ==
            RAdd(RMul(breakdown.skills_score, SkillsWeight),
                 RMul(breakdown.projects_score, ProjectsWeight))
    IN  RMax(RInt(0), RMin(RInt(100), content_score))

RuleBasedFinal(breakdown) ==
    LET source_score ==
            RAdd(RAdd(RMul(breakdown.github_score, GithubWeight),
                      RMul(breakdown.twitter_score, TwitterWeight)),
                 RMul(breakdown.linkedin_score, LinkedinWeight))
        content_score ==
            RAdd(RMul(breakdown.skills_score, SkillsWeight),
                 RMul(breakdown.projects_score, ProjectsWeight))
        rule_based_final == RMul(RAdd(source_score, content_score), Rat(1, 2))
    IN  RMax(RInt(0), RMin(RInt(100), rule_based_final))

calculate_reality_score(github_results, twitter_results, linkedin_results, verified_skills, unverified_skills, verified_projects, unverified_projects, reply) ==
    LET breakdown ==
            [github_score |-> calculate_github_score(github_results),
             twitter_score |-> calculate_twitter_score(twitter_results),
             linkedin_score |-> calculate_linkedin_score(linkedin_results),
             skills_score |-> calculate_skills_score(verified_skills, unverified_skills),
             projects_score |-> calculate_projects_score(verified_projects,
                                                         unverified_projects)]
        ai_score == call_gemini_for_score(reply)
        final_score == IF ai_score.some THEN RInt(ai_score.value)
                       ELSE RuleBasedFinal(breakdown)
    IN  [score |-> final_score, breakdown |-> breakdown]

\* ------------------------------------------------- endpoints/verification
\* The categorization loops of process_verification: a claim is verified
\* when it is a member of the verified list of at least one snapshot.
VerifiedBy(claim, github_results, twitter_results, linkedin_results, field) ==
    \/ In(claim, github_results[field])
    \/ In(claim, twitter_results[field])
    \/ In(claim, linkedin_results[field])

Bucket_unverified_by_github(claims, github_results, twitter_results, linkedin_results, field, wanted) ==
    LET Test(c) ==
            IF wanted
            THEN VerifiedBy(c, github_results, twitter_results, linkedin_results, field)
            ELSE ~In(c, github_results[field])
    IN  SelectSeq(claims, Test)

Bucket(claims, github_results, twitter_results, linkedin_results, field, wanted) ==
    LET Test(c) ==
            VerifiedBy(c, github_results, twitter_results, linkedin_results, field)
                = wanted
    IN  SelectSeq(claims, Test)

NoVerification ==
    [resume_id |-> "", status |-> "processing",
     github |-> EmptySnapshot, twitter |-> EmptySnapshot, linkedin |-> EmptySnapshot,
     verified_skills |-> <<>>, verified_projects |-> <<>>,
     unverified_skills |-> <<>>, unverified_projects |-> <<>>,
     error |-> ""]

\* The record process_verification stores, given the three snapshots.
verification_result(resume_id, skills, projects, github_results, twitter_results, linkedin_results) ==
    [resume_id |-> resume_id, status |-> "completed",
     github |-> github_results, twitter |-> twitter_results,
     linkedin |-> linkedin_results,
     verified_skills |->
        Bucket(skills, github_results, twitter_results, linkedin_results,
               "verified_skills", TRUE),
     verified_projects |->
        Bucket(projects, github_results, twitter_results, linkedin_results,
               "verified_projects", TRUE),
     unverified_skills |->
        Bucket(skills, github_results, twitter_results, linkedin_results,
               "verified_skills", FALSE),
     unverified_projects |->
        Bucket(projects, github_results, twitter_results, linkedin_results,
               "verified_projects", FALSE),
     error |-> ""]

\* ---------------------------------------------------------- endpoints/score
calculate_score(resume_id, verification_data, reply) ==
    LET r == calculate_reality_score(
                 verification_data.github, verification_data.twitter,
                 verification_data.linkedin,
                 verification_data.verified_skills,
                 verification_data.unverified_skills,
                 verification_data.verified_projects,
                 verification_data.unverified_projects, reply)
    IN  [resume_id |-> resume_id, score |-> r.score, breakdown |-> r.breakdown,
         verified_skills |-> verification_data.verified_skills,
         unverified_skills |-> verification_data.unverified_skills,
         verified_projects |-> verification_data.verified_projects,
         unverified_projects |-> verification_data.unverified_projects]

\* --------------------------------------------------- services/resume_parser
\* A text is represented by its class and by the backend it came from:
\* "empty" is "", "blank" is non-empty whitespace, "nulls" is a text whose
\* only non-whitespace characters are NUL characters, "content" is any
\* other text.
None == "None"
NoText == [class |-> "empty", from |-> "none"]
Truthy(text) == text.class # "empty"
strip(text) == IF text.class = "blank" THEN [text EXCEPT !.class = "empty"] ELSE text
clean_pdf_text(text) ==
    IF ~Truthy(text) THEN [text EXCEPT !.class = "empty"]
    ELSE strip(IF text.class = "nulls" THEN [text EXCEPT !.class = "blank"] ELSE text)

Backends == <<"pdfplumber", "PyMuPDF", "pdfminer", "PyPDF2">>
AllAvailable == [pdfplumber |-> TRUE, PyMuPDF |-> TRUE, pdfminer |-> TRUE]
Available(flags, backend) == IF backend = "PyPDF2" THEN TRUE ELSE flags[backend]

\* One backend block of extract_text_from_pdf.  outcomes[backend] is "raise"
\* or the class of the text the backend extracts from the file.  The block
\* runs when no text has been accepted yet and the library is importable; it
\* accepts the extracted text when extracted_text.strip() is truthy.
BackendBlock_always(flags, outcomes, backend, state) ==
    LET run == Available(flags, backend)
        extracted_text == [class |-> outcomes[backend], from |-> backend]
        accepted == /\ run
                    /\ outcomes[backend] # "raise"
                    /\ Truthy(strip(extracted_text))
    IN  [text |-> IF accepted THEN extracted_text ELSE state.text,
         tried |-> IF run THEN Append(state.tried, backend) ELSE state.tried]

BackendBlock(flags, outcomes, backend, state) ==
    LET run == ~Truthy(state.text) /\ Available(flags, backend)
        extracted_text == [class |-> outcomes[backend], from |-> backend]
        accepted == /\ run
                    /\ outcomes[backend] # "raise"
                    /\ Truthy(strip(extracted_text))
    IN  [text |-> IF accepted THEN extracted_text ELSE state.text,
         tried |-> IF run THEN Append(state.tried, backend) ELSE state.tried]

RECURSIVE BackendBlocks(_, _, _, _)
BackendBlocks(flags, outcomes, k, state) ==
    IF k > Len(Backends) THEN state
    ELSE BackendBlocks(flags, outcomes, k + 1,
                       BackendBlock(flags, outcomes, Backends[k], state))

\* extract_text_from_pdf: the returned text and the backends that were run.
extract_text_from_pdf(flags, outcomes) ==
    LET r == BackendBlocks(flags, outcomes, 1, [text |-> NoText, tried |-> <<>>])
    IN  [text |-> IF ~Truthy(r.text) THEN NoText ELSE strip(clean_pdf_text(r.text)),
         tried |-> r.tried]

\* extract_text_from_docx: outcome is "raise" or the class of the text
\* gathered from the paragraphs and tables.
extract_text_from_docx(outcome) ==
    IF outcome = "raise" THEN NoText
    ELSE strip([class |-> outcome, from |-> "docx"])

\* --------------------------------------------------------------- strings
\* Python's str methods and the regular expressions of the parser, on
\* strings over ASCII letters, digits and punctuation.
UpperCase == "ABCDEFGHIJKLMNOPQRSTUVWXYZ"
LowerCase == "abcdefghijklmnopqrstuvwxyz"
Digits == "0123456789_"
CharAt(s, i) == IF i < 1 \/ i > Len(s) THEN "" ELSE SubSeq(s, i, i)
Tail1(s) == SubSeq(s, 2, Len(s))
Front(s) == SubSeq(s, 1, Len(s) - 1)
Position(c, s) == CHOOSE i \in 1..Len(s) : SubSeq(s, i, i) = c
ToLower == [c \in {CharAt(UpperCase, i) : i \in 1..Len(UpperCase)} |-> CharAt(LowerCase, Position(c, UpperCase))]
ToUpper == [c \in {CharAt(LowerCase, i) : i \in 1..Len(LowerCase)} |-> CharAt(UpperCase, Position(c, LowerCase))]
LowerChar(c) == IF c \in DOMAIN ToLower THEN ToLower[c] ELSE c
UpperChar(c) == IF c \in DOMAIN ToUpper THEN ToUpper[c] ELSE c
IsAlpha(c) == c \in DOMAIN ToLower \/ c \in DOMAIN ToUpper
\* \w
WordChars == DOMAIN ToLower \cup DOMAIN ToUpper \cup {CharAt(Digits, i) : i \in 1..Len(Digits)}
IsWordChar(c) == c \in WordChars

\* str.lower().  A file name is represented by its extension, in the case
\* it was given.
RECURSIVE lower(_)
lower(s) ==
    IF Len(s) <= 1 THEN LowerChar(s)
    ELSE lower(SubSeq(s, 1, Len(s) \div 2)) \o lower(SubSeq(s, Len(s) \div 2 + 1, Len(s)))

\* str.title(): a letter is upper-cased after a non-letter, lower-cased
\* after a letter.
RECURSIVE TitleFrom(_, _)
TitleFrom(s, after_letter) ==
    IF s = "" THEN ""
    ELSE LET c == CharAt(s, 1)
         IN  (IF after_letter THEN LowerChar(c) ELSE UpperChar(c))
             \o TitleFrom(Tail1(s), IsAlpha(c))
title(s) == TitleFrom(s, FALSE)

\* sub in s
Contains(sub, s) == \E i \in 1..(Len(s) - Len(sub) + 1) : SubSeq(s, i, i + Len(sub) - 1) = sub

\* Removal of the leading / trailing characters that satisfy a test:
\* str.strip() and re.sub with ^[...]+ or [...]+$.
\* A character is dropped when its membership in chars equals member.
RECURSIVE LStrip(_, _, _)
LStrip(s, chars, member) ==
    IF s # "" /\ (CharAt(s, 1) \in chars) = member THEN LStrip(Tail1(s), chars, member) ELSE s
RECURSIVE RStrip(_, _, _)
RStrip(s, chars, member) ==
    IF s # "" /\ (CharAt(s, Len(s)) \in chars) = member THEN RStrip(Front(s), chars, member) ELSE s
Spaces == {" ", "\t", "\n", "\r"}
strip_str(s) == RStrip(LStrip(s, Spaces, TRUE), Spaces, TRUE)

\* re.split(r'[...]+', s) for a set of separator characters: the pieces
\* between runs of separators.
RECURSIVE SplitFrom(_, _, _, _)
SplitFrom(s, separators, piece, in_run) ==
    IF s = "" THEN <<piece>>
    ELSE IF CharAt(s, 1) \in separators
    THEN IF in_run THEN SplitFrom(Tail1(s), separators, "", TRUE)
         ELSE <<piece>> \o SplitFrom(Tail1(s), separators, "", TRUE)
    ELSE SplitFrom(Tail1(s), separators, piece \o CharAt(s, 1), FALSE)
split(s, separators) == SplitFrom(s, separators, "", FALSE)

\* re.search(r'\b' + re.escape(word) + r'\b', text, re.IGNORECASE): \b
\* holds between two positions exactly one of which holds a word character.
Boundary(text, i) == IsWordChar(CharAt(text, i - 1)) # IsWordChar(CharAt(text, i))
\* The text is given lower-cased.
SearchWord(word, lowered) ==
    LET w == lower(word)
    IN  \E i \in 1..(Len(lowered) - Len(w) + 1) :
            /\ SubSeq(lowered, i, i + Len(w) - 1) = w
            /\ Boundary(lowered, i)
            /\ Boundary(lowered, i + Len(w))

\* extract_information.  found[f] is what the extractor of field f does on
\* the text: raises = it raises, value = what it returns otherwise.  The
\* extractors run in the order of Extractors inside one try block, so the
\* first one that raises ends the block.  order is the order in which
\* list(set(...)) enumerates the merged skills.
Extractors == <<"name", "email", "phone", "skills", "additional_skills", "projects", "experience", "education", "github_username", "twitter_username", "linkedin_username">>
DefaultSkills == <<"Python", "Data Analysis", "Communication">>
IndexOf(field) == CHOOSE k \in 1..Len(Extractors) : Extractors[k] = field
FirstFailure(found) ==
    LET failing == {k \in 1..Len(Extractors) : found[Extractors[k]].raises}
    IN  IF failing = {} THEN Len(Extractors) + 1
        ELSE CHOOSE k \in failing : \A j \in failing : k <= j
Ran(found, field) == IndexOf(field) < FirstFailure(found)
Assigned(found, field, initial) == IF Ran(found, field) THEN found[field].value ELSE initial
Perms(S) == {f \in [1..Cardinality(S) -> S] : Range(f) = S}
SetOrders(found) ==
    LET additional_skills == Assigned(found, "additional_skills", <<>>)
    IN  IF additional_skills = <<>> THEN {<<>>}
        ELSE Perms(Range(found.skills.value) \cup Range(additional_skills))

extract_information(found, order) ==
    LET additional_skills == Assigned(found, "additional_skills", <<>>)
        skills == IF additional_skills # <<>> THEN order
                  ELSE Assigned(found, "skills", <<>>)
    IN  [name |-> Assigned(found, "name", None),
         email |-> Assigned(found, "email", None),
         phone |-> Assigned(found, "phone", None),
         skills |-> IF skills = <<>> THEN DefaultSkills ELSE skills,
         projects |-> Assigned(found, "projects", <<>>),
         experience |-> Assigned(found, "experience", <<>>),
         education |-> Assigned(found, "education", <<>>),
         github_username |-> Assigned(found, "github_username", None),
         twitter_username |-> Assigned(found, "twitter_username", None),
         linkedin_username |-> Assigned(found, "linkedin_username", None),
         status |-> "completed"]

\* What every extractor returns on a text without content.
Returns(value) == [raises |-> FALSE, value |-> value]
NothingFound ==
    [name |-> Returns(None), email |-> Returns(None), phone |-> Returns(None),
     skills |-> Returns(<<>>), additional_skills |-> Returns(<<>>),
     projects |-> Returns(<<>>), experience |-> Returns(<<>>),
     education |-> Returns(<<>>), github_username |-> Returns(None),
     twitter_username |-> Returns(None), linkedin_username |-> Returns(None)]

\* The value of parsed_data before extract_information has returned.
NoParsed ==
    [name |-> None, email |-> None, phone |-> None, skills |-> <<>>,
     projects |-> <<>>, experience |-> <<>>, education |-> <<>>,
     github_username |-> None, twitter_username |-> None,
     linkedin_username |-> None, status |-> ""]

\* parse_resume_with_text on a file: raised = "Unsupported file format";
\* otherwise the parsed data, the raw text and the backends that were run.
\* file.found and file.keyword / file.long describe the content of the file;
\* they apply when the extracted text has content.
FoundIn(file, text) == IF text.class = "content" THEN file.found ELSE NothingFound
ExtractText(flags, file) ==
    IF file.ext = ".pdf" THEN extract_text_from_pdf(flags, file.backends)
    ELSE [text |-> extract_text_from_docx(file.docx), tried |-> <<>>]
parse_resume_with_text(flags, file, order) ==
    IF file.ext \notin {".pdf", ".doc", ".docx"}
    THEN [raised |-> TRUE, parsed_data |-> NoParsed,
          text |-> NoText, tried |-> <<>>, extracted |-> FALSE]
    ELSE LET r == ExtractText(flags, file)
         IN  [raised |-> FALSE,
              parsed_data |-> extract_information(FoundIn(file, r.text), order),
              text |-> r.text, tried |-> r.tried, extracted |-> TRUE]

\* ------------------------------------------ resume_parser (field extractors)
\* A resume text is described by the body of its skills section, the body of
\* its achievements section (None when the text has no such section) and
\* the project candidates the staged search of extract_projects collects.
\* The text itself is a contact line followed by the sections.
ResumeText(skills, achievements, projects) ==
    [skills |-> skills, achievements |-> achievements, projects |-> projects]
RawText(text) ==
    "ann@example.com\n"
    \o (IF text.skills = None THEN "" ELSE "Skills: " \o text.skills \o "\n")
    \o (IF text.achievements = None THEN "" ELSE "ACHIEVEMENTS\n" \o text.achievements \o "\n")

\* extract_skills.  skill_keywords: the keywords of the list that a text of
\* the model can match, in the order of the list.
skill_keywords ==
    <<"Python", "JavaScript", "Java", "C++", "React", "Git", "Data Analysis",
      "Project Management", "Leadership", "Communication", "Problem Solving",
      "Teamwork", "C">>
SkillSeparators == {",", "|", "\n", "\t", ";", "/", "\\"}
StopWords ==
    {"and", "or", "with", "using", "including", "etc", "the", "of", "in",
     "languages", "english", "hindi", "skills", "programming", "tools", "soft"}
ProjectWords ==
    {"platform", "app", "website", "portal", "system", "dashboard", "service",
     "roots", "questfi", "auditor", "network", "data sharing", "monetization",
     "bounty", "verification", "reality score"}
SoftSkills ==
    {"leadership", "public speaking", "community management", "problem solving",
     "teamwork", "communication"}
TechWords ==
    {"programming", "development", "design", "analysis", "management", "testing",
     "deployment", "script", "code"}
\* The filter of the section pass (the exclusions of handles, URLs, years
\* and dashed descriptions, which no text of the model meets, left out).
IsSkill(skill) ==
    /\ lower(skill) \notin StopWords
    /\ \A k \in ProjectWords : ~Contains(k, lower(skill))
    /\ Len(skill) < 30
    /\ \/ In(skill, skill_keywords)
       \/ lower(skill) \in SoftSkills
       \/ \E t \in TechWords : Contains(t, lower(skill))
\* First pass: the keywords found anywhere in the text, in keyword order.
KeywordPass_skipped(raw) == <<>>
KeywordPass(raw) ==
    LET lowered == lower(raw)
        Matches(skill) == SearchWord(skill, lowered)
    IN  SelectSeq(skill_keywords, Matches)
\* Second pass: the items of the skills section, in text order.
RECURSIVE SectionPass(_, _)
SectionPass(skills_list, found_skills) ==
    IF skills_list = <<>> THEN found_skills
    ELSE LET skill == strip_str(RStrip(LStrip(strip_str(Head(skills_list)), WordChars, FALSE), WordChars, FALSE))
         IN  SectionPass(Tail(skills_list),
                IF skill # "" /\ Len(skill) > 1 /\ ~In(skill, found_skills) /\ IsSkill(skill)
                THEN Append(found_skills, skill) ELSE found_skills)
\* "Remove duplicates while preserving order", by lower-cased value.
RECURSIVE UniqueSkills(_, _)
UniqueSkills(found_skills, unique_skills) ==
    IF found_skills = <<>> THEN unique_skills
    ELSE UniqueSkills(Tail(found_skills),
            IF \E i \in 1..Len(unique_skills) : lower(unique_skills[i]) = lower(Head(found_skills))
            THEN unique_skills ELSE Append(unique_skills, Head(found_skills)))
extract_skills(text) ==
    LET found_skills == KeywordPass(RawText(text))
    IN  UniqueSkills(
            IF text.skills = None THEN found_skills
            ELSE SectionPass(split(strip_str(text.skills), SkillSeparators), found_skills),
            <<>>)

\* extract_additional_skills_from_achievements.
skill_indicators ==
    <<[skill |-> "leadership", indicators |-> {"president", "captain", "leader", "head", "coordinator", "organizer", "manager"}],
      [skill |-> "teamwork", indicators |-> {"team", "group", "collaboration", "cooperative", "member"}],
      [skill |-> "communication", indicators |-> {"presentation", "speaking", "debate", "public speaking", "communication"}],
      [skill |-> "project management", indicators |-> {"organized", "planned", "coordinated", "managed", "executed"}],
      [skill |-> "problem solving", indicators |-> {"solved", "resolved", "troubleshooting", "analysis", "strategy"}],
      [skill |-> "time management", indicators |-> {"deadline", "schedule", "multitasking", "prioritize"}],
      [skill |-> "creativity", indicators |-> {"creative", "innovative", "design", "artistic", "original"}],
      [skill |-> "analytical thinking", indicators |-> {"analysis", "research", "data", "statistical", "analytical"}],
      [skill |-> "adaptability", indicators |-> {"adapted", "flexible", "versatile", "diverse"}],
      [skill |-> "mentoring", indicators |-> {"mentor", "tutor", "teach", "guide", "coach"}]>>
RECURSIVE IndicatedSkills(_, _, _)
IndicatedSkills(section_text, k, additional_skills) ==
    IF k > Len(skill_indicators) THEN additional_skills
    ELSE LET skill == skill_indicators[k].skill
         IN  IndicatedSkills(section_text, k + 1,
                IF (\E indicator \in skill_indicators[k].indicators : Contains(indicator, section_text))
                   /\ ~In(skill, additional_skills)
                THEN Append(additional_skills, title(skill)) ELSE additional_skills)
\* The first pattern matches the achievements section.  The second one
\* matches from a skills section that ends in one of its section words
\* (e.g. the skill "Leadership") to the end of the text.
ActivityWords == {"extracurricular", "activities", "volunteer", "leadership", "organization", "organizations"}
EndsWith(s, suffix) == Len(suffix) <= Len(s) /\ SubSeq(s, Len(s) - Len(suffix) + 1, Len(s)) = suffix
extract_additional_skills_from_achievements(text) ==
    IF text.achievements = None THEN <<>>
    ELSE LET first == IndicatedSkills(lower(strip_str(text.achievements)), 1, <<>>)
         IN  IF text.skills # None
                /\ \E w \in ActivityWords : EndsWith(lower(strip_str(text.skills)), w)
             THEN IndicatedSkills(lower("ACHIEVEMENTS\n" \o strip_str(text.achievements)), 1, first)
             ELSE first

\* The source file holds its dash literals as the three characters that the
\* UTF-8 bytes of a dash give when they are read as Windows-1252: the
\* patterns written for the em-dash hold U+00E2 U+20AC U+201D, the class
\* written for "en-dash or hyphen" holds the hyphen, U+00E2, U+20AC and
\* U+201C, the bullet holds U+00E2 U+20AC U+00A2.  Strings here are ASCII,
\* so each of these characters, and the em-dash U+2014 itself, is written
\* as an ASCII character that the resumes considered do not use otherwise.
EmDash == "~"
Circumflex == "^"
Euro == "="
RightQuote == "'"
LeftQuote == "{"
Cent == "|"
SourceEmDash == Circumflex \o Euro \o RightQuote
SourceBullet == Circumflex \o Euro \o Cent

\* extract_projects, "Clean up and deduplicate projects": the names of the
\* candidates, cleaned, that are kept.
RECURSIVE RemoveBrackets(_)
RemoveBrackets(name) ==
    LET opens == {i \in 1..Len(name) : CharAt(name, i) = "["}
        closes(i) == {j \in (i + 1)..Len(name) : CharAt(name, j) = "]"}
        matched == {i \in opens : closes(i) # {}}
    IN  IF matched = {} THEN name
        ELSE LET i == CHOOSE a \in matched : \A b \in matched : a <= b
                 j == CHOOSE a \in closes(i) : \A b \in closes(i) : a <= b
             IN  SubSeq(name, 1, i - 1) \o RemoveBrackets(SubSeq(name, j + 1, Len(name)))
CleanName(name) ==
    LET unbulleted == LStrip(strip_str(name), {"-", Circumflex, Euro, Cent} \cup Spaces, TRUE)
        uncoloned == RStrip(unbulleted, {":", " ", "\t", "\n", "\r"}, TRUE)
    IN  strip_str(RemoveBrackets(uncoloned))
RECURSIVE CleanProjects(_, _)
CleanProjects(projects, cleaned_projects) ==
    IF projects = <<>> THEN cleaned_projects
    ELSE LET name == CleanName(Head(projects))
         IN  CleanProjects(Tail(projects),
                IF name # "" /\ Len(name) > 3
                   /\ \A i \in 1..Len(cleaned_projects) : lower(cleaned_projects[i]) # lower(name)
                THEN Append(cleaned_projects, name) ELSE cleaned_projects)
extract_projects(text) == CleanProjects(text.projects, <<>>)

\* What the extractors find in a text.
FoundInText(text) ==
    [NothingFound EXCEPT
        !.email = Returns("ann@example.com"),
        !.skills = Returns(extract_skills(text)),
        !.additional_skills = Returns(extract_additional_skills_from_achievements(text)),
        !.projects = Returns(extract_projects(text))]

\* ------------------------------------------------- endpoints/resume (data)
\* A stored resume record; a key the code did not write holds the value
\* .get() gives for it ("" for resume_id and error).
NoResume ==
    [resume_id |-> "", status |-> "", error |-> "",
     name |-> None, email |-> None, phone |-> None,
     skills |-> <<>>, projects |-> <<>>, experience |-> <<>>, education |-> <<>>,
     github_username |-> None, twitter_username |-> None, linkedin_username |-> None]
ErrorResume(resume_id, error) ==
    [NoResume EXCEPT !.resume_id = resume_id, !.status = "error", !.error = error]

\* The heuristic of process_resume: one signal per non-empty field among
\* email, phone, skills, education, experience, projects, and one for a
\* section keyword in the raw text.
Signals(parsed_data, has_keyword) ==
    (IF parsed_data.email # None THEN 1 ELSE 0)
    + (IF parsed_data.phone # None THEN 1 ELSE 0)
    + (IF parsed_data.skills # <<>> THEN 1 ELSE 0)
    + (IF parsed_data.education # <<>> THEN 1 ELSE 0)
    + (IF parsed_data.experience # <<>> THEN 1 ELSE 0)
    + (IF parsed_data.projects # <<>> THEN 1 ELSE 0)
    + (IF has_keyword THEN 1 ELSE 0)
NotAResume(parsed_data, has_keyword, is_short) ==
    LET signals == Signals(parsed_data, has_keyword)
    IN  signals <= 1 \/ (is_short /\ signals <= 2)

\* process_resume after its first write: the record it stores last and
\* whether it removes the temp file.  parse is the result of
\* parse_resume_with_text; form holds the name / email form fields.
process_resume_pending(resume_id, file_exists, parse, file, form) ==
    [record |-> [NoResume EXCEPT !.resume_id = resume_id, !.status = "processing"],
     remove |-> FALSE]
process_resume(resume_id, file_exists, parse, file, form) ==
    IF ~file_exists
    THEN [record |-> ErrorResume(resume_id, "Resume file not found"), remove |-> FALSE]
    ELSE IF parse.raised
    THEN [record |-> ErrorResume(resume_id, "Unsupported file format"), remove |-> TRUE]
    ELSE IF NotAResume(parse.parsed_data,
                       parse.text.class = "content" /\ file.keyword,
                       ~(parse.text.class = "content" /\ file.long))
    THEN [record |-> ErrorResume(resume_id, "This is not a resume"), remove |-> FALSE]
    ELSE LET parsed_data == parse.parsed_data
             skills == IF parsed_data.skills = <<>> THEN DefaultSkills
                       ELSE parsed_data.skills
         IN  [record |->
                [resume_id |-> resume_id, status |-> "completed", error |-> "",
                 name |-> IF form.name # None THEN form.name ELSE parsed_data.name,
                 email |-> IF form.email # None THEN form.email ELSE parsed_data.email,
                 phone |-> parsed_data.phone,
                 skills |-> skills,
                 projects |-> parsed_data.projects,
                 experience |-> parsed_data.experience,
                 education |-> parsed_data.education,
                 github_username |-> parsed_data.github_username,
                 twitter_username |-> parsed_data.twitter_username,
                 linkedin_username |-> parsed_data.linkedin_username],
              remove |-> TRUE]

\* -------------------------------------------- services/*_service (sources)
\* A source call is described by call.outcome ("ok", or the point where an
\* exception is raised: "fetch_raises" inside the fetch, "match_raises"
\* inside verify_skills / verify_projects, "call_raises" outside the try
\* block of verify_*_claims), by call.evidence, the set of claim names the
\* fetched data matches, and by the fetched data: call.repos, the GitHub
\* repositories, call.languages, the number of languages, call.mentioned,
\* the claim names the LinkedIn experience or education entries mention.
\* The verified list of a loop over the claims that appends a claim the
\* listed set matches (whether or not it is in the list already), and
\* otherwise appends a claim the mentioned set matches if it is not in the
\* list yet.
RECURSIVE AppendMatches(_, _, _, _)
AppendMatches(claims, listed, mentioned, verified) ==
    IF claims = <<>> THEN verified
    ELSE LET appended(claim, before) ==
                IF claim \in listed \/ (claim \in mentioned /\ ~In(claim, before))
                THEN Append(before, claim) ELSE before
         IN  appended(claims[Len(claims)],
                      AppendMatches(SubSeq(claims, 1, Len(claims) - 1), listed, mentioned, verified))
\* A proof list is kept as the texts of its items, without the values the
\* f-strings interpolate (the GitHub project proof keeps them).

\* The claim names of this model (the names some specification passes to a
\* source).
SourceSkills == {"React", "Git", "Leadership"}
SourceProjects == {"Questfi", " Questfi ", "Data Roots", "Profile Auditor", "portfolio"}
ClaimNames ==
    SkillNames \cup ProjectNames \cup Range(DefaultSkills) \cup SourceSkills \cup SourceProjects

Repo(name, description) == [name |-> name, description |-> description]
\* get_mock_repositories: name and description of the six repositories.
get_mock_repositories ==
    <<Repo("personal-website", "My personal portfolio website built with React and Tailwind CSS"),
      Repo("machine-learning-projects", "Collection of ML projects using TensorFlow and PyTorch"),
      Repo("resume-parser", "Automated resume parsing tool using NLP and machine learning"),
      Repo("e-commerce-api", "RESTful API for e-commerce platform built with Node.js and Express"),
      Repo("data-visualization-dashboard", "Interactive dashboard for data visualization using D3.js"),
      Repo("blockchain-voting-system", "Secure voting system built on Ethereum blockchain")>>
\* The repositories of test_project_matching.py, without the last one.
AccountRepos ==
    <<Repo("Questfi-Vietbuild", "Blockchain bounty platform"),
      Repo("ProfileAuditor", "Resume verification app"),
      Repo("data-roots", "Decentralized data sharing platform"),
      Repo("some-other-repo", "Unrelated repository")>>
\* The repositories of test_project_matching.py.
TestRepos == AccountRepos \o <<Repo("questfi", "Alternative questfi repo")>>

\* github_service.verify_skills: skills that name a GitHub or
\* problem-solving term are verified first when the account has decent
\* activity, then the skills the languages, repositories or commits match;
\* no skill is appended twice.
github_skills == {"github", "git", "version control", "source control", "code management"}
problem_solving_skills == {"problem solving", "problem-solving", "analytical thinking", "debugging", "troubleshooting"}
IsAutoSkill(skill) ==
    \E term \in github_skills \cup problem_solving_skills : Contains(term, lower(skill))
AutoSkills == {name : name \in {skill \in ClaimNames : IsAutoSkill(skill)}}
AutoVerified(skills, call) ==
    IF Len(call.repos) >= 3 \/ call.languages >= 2
    THEN {skill \in Range(skills) :
            IF skill \in ClaimNames THEN skill \in AutoSkills ELSE IsAutoSkill(skill)}
    ELSE {}
github_verify_skills(skills, call) ==
    LET result(auto, verified) ==
            [verified |-> verified,
             proof |-> [skill \in Range(verified) |->
                          IF skill \in auto THEN <<"Demonstrated through GitHub activity">>
                          ELSE <<"Found in languages, repositories or commits">>]]
        matched(auto) ==
            result(auto, AppendMatches(skills, {}, call.evidence, AppendMatches(skills, {}, auto, <<>>)))
    IN  matched(AutoVerified(skills, call))
RaiseOutcomes == {"fetch_raises", "match_raises", "call_raises"}

\* github_service.verify_projects.  A repository is [name, description].
RECURSIVE FilterChars(_, _)
FilterChars(s, keep) ==
    IF s = "" THEN ""
    ELSE (IF CharAt(s, 1) \in keep THEN CharAt(s, 1) ELSE "") \o FilterChars(Tail1(s), keep)
\* re.sub(r'[...]+', by, s) and str.replace(c, by) for a set of characters.
RECURSIVE ReplaceRuns(_, _, _, _)
ReplaceRuns(s, chars, by, in_run) ==
    IF s = "" THEN ""
    ELSE IF CharAt(s, 1) \in chars
    THEN (IF in_run THEN "" ELSE by) \o ReplaceRuns(Tail1(s), chars, by, TRUE)
    ELSE CharAt(s, 1) \o ReplaceRuns(Tail1(s), chars, by, FALSE)
RECURSIVE replace(_, _, _)
replace(s, c, by) ==
    IF s = "" THEN ""
    ELSE (IF CharAt(s, 1) = c THEN by ELSE CharAt(s, 1)) \o replace(Tail1(s), c, by)
\* str.split(): the words between runs of whitespace.
RECURSIVE DropEmpty(_)
DropEmpty(items) ==
    IF items = <<>> THEN <<>>
    ELSE (IF Head(items) = "" THEN <<>> ELSE <<Head(items)>>) \o DropEmpty(Tail(items))
Words(s) == DropEmpty(split(s, Spaces))
StartsWith(s, prefix) == Len(prefix) <= Len(s) /\ SubSeq(s, 1, Len(prefix)) = prefix

normalize_name(name) ==
    IF name = "" THEN ""
    ELSE LET kept == FilterChars(lower(name), WordChars \cup Spaces \cup {"-"})
             hyphened == ReplaceRuns(kept, Spaces \cup {"_"}, "-", FALSE)
             single == ReplaceRuns(hyphened, {"-"}, "-", FALSE)
         IN  RStrip(LStrip(single, {"-"}, TRUE), {"-"}, TRUE)
\* get_name_variants, for names of at most 50 characters (longer names get
\* key-term variants in addition).
get_name_variants(given) ==
    IF given = "" THEN {}
    ELSE LET variants(name, name_lower, base_normalized) ==
                ({name_lower, base_normalized, replace(base_normalized, "-", ""),
                  replace(base_normalized, "-", "_"), replace(base_normalized, "-", " ")}
                 \cup (IF Contains(" ", name)
                       THEN {replace(name_lower, " ", "-"), replace(name_lower, " ", "_"),
                             replace(name_lower, " ", "")}
                       ELSE {}))
                \ {""}
             stripped(name) == variants(name, lower(name), normalize_name(name))
         IN  stripped(strip_str(given))
ContainsMatch(project_name, repo_name) ==
    LET contains_match(project_lower, repo_lower) ==
            IF Contains(project_lower, repo_lower) \/ Contains(repo_lower, project_lower) THEN TRUE
            ELSE IF Len(Words(project_name)) > 1
            THEN Range(Words(lower(project_name))) \subseteq Range(Words(lower(repo_name)))
            ELSE IF normalize_name(project_name) = normalize_name(repo_name) THEN TRUE
            ELSE \/ StartsWith(repo_lower, project_lower \o "-")
                 \/ StartsWith(repo_lower, project_lower \o "_")
                 \/ EndsWith(repo_lower, "-" \o project_lower)
                 \/ EndsWith(repo_lower, "_" \o project_lower)
    IN  contains_match(strip_str(lower(project_name)), strip_str(lower(repo_name)))
\* The match type of one repository for a project name: "exact",
\* "contains", "description", or "none".
match_type_exactonly(project_name, repo) ==
    IF strip_str(repo.name) = "" THEN "none"
    ELSE IF get_name_variants(project_name) \cap get_name_variants(strip_str(repo.name)) # {}
    THEN "exact" ELSE "none"
match_type(project_name, repo) ==
    LET type(repo_name) ==
            IF repo_name = "" THEN "none"
            ELSE IF get_name_variants(project_name) \cap get_name_variants(repo_name) # {}
            THEN "exact"
            ELSE IF ContainsMatch(project_name, repo_name) THEN "contains"
            ELSE IF repo.description # "" /\ Contains(lower(project_name), lower(repo.description))
            THEN "description"
            ELSE "none"
    IN  type(strip_str(repo.name))
RECURSIVE JoinWith(_, _)
JoinWith(items, separator) ==
    IF items = <<>> THEN ""
    ELSE IF Len(items) = 1 THEN items[1]
    ELSE items[1] \o separator \o JoinWith(Tail(items), separator)
\* The repositories that match a project name, each with its match type.
RECURSIVE MatchingRepos(_, _)
MatchingRepos(project_name, repos) ==
    IF repos = <<>> THEN <<>>
    ELSE LET matching(type) ==
                IF type = "none" THEN <<>>
                ELSE <<[name |-> strip_str(Head(repos).name), type |-> type]>>
         IN  matching(match_type(project_name, Head(repos))) \o MatchingRepos(project_name, Tail(repos))
\* One iteration of the loop of verify_projects: the stripped name, the
\* matching repositories, and the proof a verified project gets (the
\* matching repositories, and each of them with its match type).
verify_project_firstrepo(project, repos) ==
    LET found(project_name, matching_repos) ==
            [project_name |-> project_name,
             matching_repos |-> matching_repos,
             proof |-> IF matching_repos = <<>> THEN <<>>
                       ELSE <<"Found matching repositories: " \o matching_repos[1].name,
                              "Match details: " \o matching_repos[1].name
                                  \o " (" \o matching_repos[1].type \o ")">>]
        checked(project_name) ==
            found(project_name, IF project_name = "" THEN <<>> ELSE MatchingRepos(project_name, repos))
    IN  checked(strip_str(project))
verify_project(project, repos) ==
    LET found(project_name, matching_repos) ==
            [project_name |-> project_name,
             matching_repos |-> matching_repos,
             proof |-> <<"Found matching repositories: "
                            \o JoinWith([i \in 1..Len(matching_repos) |-> matching_repos[i].name], ", "),
                         "Match details: "
                            \o JoinWith([i \in 1..Len(matching_repos) |->
                                            matching_repos[i].name \o " (" \o matching_repos[i].type \o ")"],
                                        ", ")>>]
        checked(project_name) ==
            found(project_name, IF project_name = "" THEN <<>> ELSE MatchingRepos(project_name, repos))
    IN  checked(strip_str(project))
\* verify_project, tabulated for the claim names and accounts of this model.
KnownAccounts == {get_mock_repositories, AccountRepos, TestRepos}
ProjectTable == {<<project, repos, verify_project(project, repos)>> : project \in ClaimNames, repos \in KnownAccounts}
VerifyProject(project, repos) ==
    IF project \in ClaimNames /\ repos \in KnownAccounts
    THEN (CHOOSE row \in ProjectTable : row[1] = project /\ row[2] = repos)[3]
    ELSE verify_project(project, repos)
RECURSIVE github_verify_projects(_, _, _)
github_verify_projects(projects, repos, result) ==
    IF projects = <<>> THEN result
    ELSE LET checked(before, found) ==
                IF found.matching_repos = <<>> THEN before
                ELSE [verified |-> Append(before.verified, found.project_name),
                      proof |-> Put(before.proof, found.project_name, found.proof)]
         IN  checked(github_verify_projects(SubSeq(projects, 1, Len(projects) - 1), repos, result),
                     VerifyProject(projects[Len(projects)], repos))

GithubSnapshot(call, skill_result, project_result) ==
    [EmptySnapshot EXCEPT
        !.present = TRUE,
        !.repositories = Len(call.repos), !.languages = call.languages,
        !.contributions = 500,
        !.verified_skills = skill_result.verified,
        !.verified_projects = project_result.verified,
        !.proof = [skills |-> skill_result.proof, projects |-> project_result.proof]]
NoneVerified == [verified |-> <<>>, proof |-> NoStore]

verify_github_claims_partial(call, skills, projects) ==
    IF call.outcome = "fetch_raises" THEN ErrorSnapshot
    ELSE IF call.outcome = "match_raises"
    THEN [ErrorSnapshot EXCEPT !.verified_skills = github_verify_skills(skills, call).verified]
    ELSE GithubSnapshot(call, github_verify_skills(skills, call),
                        github_verify_projects(projects, call.repos, NoneVerified))

verify_github_claims(call, skills, projects) ==
    IF call.outcome \in {"fetch_raises", "match_raises"} THEN ErrorSnapshot
    ELSE GithubSnapshot(call, github_verify_skills(skills, call),
                        github_verify_projects(projects, call.repos, NoneVerified))

\* get_mock_tweets: the texts of the five tweets.
get_mock_tweets ==
    <<"Just finished implementing a new feature using React and Tailwind CSS. Loving the developer experience! #webdev #React #TailwindCSS",
      "Working on a machine learning project with TensorFlow. Neural networks are fascinating! #MachineLearning #TensorFlow #AI",
      "Built a RESTful API with Node.js and Express for my e-commerce project. #NodeJS #Express #API",
      "Data visualization is so powerful! Just created an interactive dashboard with D3.js. #DataViz #D3js #JavaScript",
      "Exploring blockchain technology for my voting system project. Ethereum and Solidity are game-changers! #Blockchain #Ethereum #Solidity">>
\* twitter_service.verify_skills / verify_projects: a claim is verified
\* when its lower-cased name occurs in the lower-cased text of a tweet.
Mentioned(claim, tweets) ==
    \E i \in 1..Len(tweets) : Contains(lower(claim), lower(tweets[i]))
\* The claim names of this model the mock tweets mention.
MockTweetMentions == {name : name \in {claim \in ClaimNames : Mentioned(claim, get_mock_tweets)}}
\* Every occurrence of a mentioned claim is appended.
twitter_verify(claims) ==
    LET result(verified) ==
            [verified |-> verified,
             proof |-> [claim \in Range(verified) |-> <<"Mentioned in tweets", "Example">>]]
    IN  result(AppendMatches(claims, MockTweetMentions, {}, <<>>))
verify_twitter_claims(call, skills, projects) ==
    IF call.outcome \in {"fetch_raises", "match_raises"} THEN ErrorSnapshot
    ELSE [EmptySnapshot EXCEPT
            !.present = TRUE, !.tweets = 5,
            !.verified_skills = twitter_verify(skills).verified,
            !.verified_projects = twitter_verify(projects).verified,
            !.proof = [skills |-> twitter_verify(skills).proof,
                       projects |-> twitter_verify(projects).proof]]

\* get_mock_linkedin_profile: the skills of the mock profile among the
\* claim names used here.
MockProfileSkills == {"Python", "React", "Git", "Leadership", "Data Analysis", "Communication"}
\* linkedin_service.verify_skills / verify_projects: a claim the profile
\* lists (call.evidence) is appended at each of its occurrences; a claim
\* only an experience or education entry mentions (call.mentioned) is
\* appended unless it is verified already.
LinkedinProof(claim, call) ==
    IF claim \in call.evidence THEN <<"Listed on LinkedIn profile", "Endorsed or described">>
    ELSE <<"Mentioned in experience", "Description">>
linkedin_verify(claims, call) ==
    LET result(verified) ==
            [verified |-> verified,
             proof |-> [claim \in Range(verified) |-> LinkedinProof(claim, call)]]
    IN  result(AppendMatches(claims, call.evidence, call.mentioned, <<>>))
verify_linkedin_claims(call, skills, projects) ==
    IF call.outcome \in {"fetch_raises", "match_raises"} THEN ErrorSnapshot
    ELSE [EmptySnapshot EXCEPT
            !.present = TRUE,
            !.profile = [name |-> TRUE, headline |-> TRUE, skills |-> TRUE],
            !.verified_skills = linkedin_verify(skills, call).verified,
            !.verified_projects = linkedin_verify(projects, call).verified,
            !.proof = [skills |-> linkedin_verify(skills, call).proof,
                       projects |-> linkedin_verify(projects, call).proof]]

\* --------------------------------------- endpoints/verification (pipeline)
\* The user name process_verification uses for a source: the one of the
\* request, else the one of the resume.
Username(requested, from_resume) == IF requested # None THEN requested ELSE from_resume

\* One guarded source call of process_verification: skipped without a user
\* name; an exception escaping the call becomes {"error": ...}.
GuardedCall(username, call, snapshot) ==
    IF username = None THEN [called |-> FALSE, results |-> EmptySnapshot]
    ELSE [called |-> TRUE,
          results |-> IF call.outcome = "call_raises" THEN ErrorSnapshot ELSE snapshot]

\* The three guarded source calls of process_verification.
SourceResults(usernames, env, skills, projects) ==
    [github |-> GuardedCall(usernames.github, env.github,
                            verify_github_claims(env.github, skills, projects)),
     twitter |-> GuardedCall(usernames.twitter, env.twitter,
                             verify_twitter_claims(env.twitter, skills, projects)),
     linkedin |-> GuardedCall(usernames.linkedin, env.linkedin,
                              verify_linkedin_claims(env.linkedin, skills, projects))]

\* start_verification, "Ensure projects exist and are in the correct
\* format": an empty project list stays empty.
EnsureProjects_placeholder(projects) ==
    IF projects = <<>> THEN <<"Sample Project">> ELSE projects
EnsureProjects(projects) == IF projects = <<>> THEN <<>> ELSE projects

\* process_verification: the record it stores, per source how its call
\* went ("skipped" when it was not called), and the skill and project lists
\* it passes to the sources.
process_verification(resume_id, resume_data, request, env) ==
    LET skills == resume_data.skills
        projects == resume_data.projects
        usernames ==
            [github |-> Username(request.github_username, resume_data.github_username),
             twitter |-> Username(request.twitter_username, resume_data.twitter_username),
             linkedin |-> Username(request.linkedin_username, resume_data.linkedin_username)]
        r == SourceResults(usernames, env, skills, projects)
    IN  [record |-> verification_result(resume_id, skills, projects,
                                        r.github.results, r.twitter.results,
                                        r.linkedin.results),
         calls |-> [s \in Sources |->
                      IF r[s].called THEN env[s].outcome ELSE "skipped"],
         skills |-> skills, projects |-> projects]

\* ------------------------------------------------------------------ state
VARIABLES
    resume_storage,        \* resume.py: resume_storage
    verification_storage,  \* verification.py: verification_storage
    score_storage,         \* score.py: score_storage
    response,              \* the last answer a handler gave to its caller
    gemini,                \* per resume id, the reply of the model call made for its score
    feed,                  \* inputs of the scoring harness (ScoreSpec)
    temp_files,            \* resume.py: the uploaded files in the temp directory, by resume id
    task,                  \* per resume id, the process_resume task: position and locals
    lib,                   \* resume_parser.py: the *_AVAILABLE flags set at import
    calls,                 \* per resume id, the source calls of its verification run
    returned               \* the last direct call of a verify_*_claims function: its arguments and its result (SourceSpec)

vars == <<resume_storage, verification_storage, score_storage, response, gemini, feed, temp_files, task, lib, calls, returned>>

NoReturn == [source |-> "none", skills |-> <<>>, projects |-> <<>>, call |-> 0, result |-> EmptySnapshot]

NoResponse == [op |-> "none", resume_id |-> "", code |-> 0, status |-> ""]
Response(op, id, code, status) ==
    [op |-> op, resume_id |-> id, code |-> code, status |-> status]

\* Replies of the model call: unavailable / no number in the text, or a
\* number the pattern \b(100|\d{1,2})\b can match.
AiReplies == {[ok |-> FALSE, n |-> 0], [ok |-> TRUE, n |-> 37]}

\* get_score
GetScore_recompute(resume_id, reply) ==
    /\ IF resume_id \notin DOMAIN verification_storage
       THEN /\ response' = Response("get_score", resume_id, 404, "not_found")
            /\ UNCHANGED <<score_storage, gemini>>
       ELSE IF verification_storage[resume_id].status # "completed"
       THEN /\ response' = Response("get_score", resume_id, 400, "error")
            /\ UNCHANGED <<score_storage, gemini>>
       ELSE /\ score_storage' =
                Put(score_storage, resume_id,
                    calculate_score(resume_id, verification_storage[resume_id], reply))
            /\ gemini' = Put(gemini, resume_id, reply)
            /\ response' = Response("get_score", resume_id, 200, "computed")
    /\ UNCHANGED <<resume_storage, verification_storage, feed, temp_files, task, lib, calls, returned>>
GetScore(resume_id, reply) ==
    /\ IF resume_id \in DOMAIN score_storage
       THEN /\ response' = Response("get_score", resume_id, 200, "cached")
            /\ UNCHANGED <<score_storage, gemini>>
       ELSE IF resume_id \notin DOMAIN verification_storage
       THEN /\ response' = Response("get_score", resume_id, 404, "not_found")
            /\ UNCHANGED <<score_storage, gemini>>
       ELSE IF verification_storage[resume_id].status = "processing"
       THEN /\ response' = Response("get_score", resume_id, 202, "processing")
            /\ UNCHANGED <<score_storage, gemini>>
       ELSE IF verification_storage[resume_id].status = "error"
       THEN /\ response' = Response("get_score", resume_id, 400, "error")
            /\ UNCHANGED <<score_storage, gemini>>
       ELSE IF verification_storage[resume_id].status # "completed"
       THEN /\ response' = Response("get_score", resume_id, 400, "not_completed")
            /\ UNCHANGED <<score_storage, gemini>>
       ELSE /\ score_storage' =
                Put(score_storage, resume_id,
                    calculate_score(resume_id, verification_storage[resume_id], reply))
            /\ gemini' = Put(gemini, resume_id, reply)
            /\ response' = Response("get_score", resume_id, 200, "computed")
    /\ UNCHANGED <<resume_storage, verification_storage, feed, temp_files, task, lib, calls, returned>>

\* ------------------------------------------------- scoring harness (ScoreSpec)
\* process_verification and get_score applied to arbitrary claim lists and
\* arbitrary source snapshots.
SnapSkillLists == {<<>>, <<"Git", "Python">>, Repeat("Python", 11)}
SnapProjectLists == {<<>>, <<"Questfi">>}
RepoCounts == {0, 4, 6}
LanguageCounts == {3, 6}
ContributionCounts == {30, 500, 1000}
TweetCounts == {0, 5, 6}

Filled(base, vs, vp) ==
    [base EXCEPT !.present = TRUE, !.verified_skills = vs, !.verified_projects = vp]

GithubSnapshots ==
    {[Filled(EmptySnapshot, vs, vp) EXCEPT
         !.repositories = r, !.languages = l, !.contributions = c] :
        vs \in SnapSkillLists, vp \in SnapProjectLists,
        r \in RepoCounts, l \in LanguageCounts, c \in ContributionCounts}
TwitterSnapshots ==
    {[Filled(EmptySnapshot, vs, vp) EXCEPT !.tweets = t] :
        vs \in SnapSkillLists, vp \in SnapProjectLists, t \in TweetCounts}
LinkedinSnapshots ==
    {[Filled(EmptySnapshot, vs, vp) EXCEPT
         !.profile = [name |-> n, headline |-> h, skills |-> s]] :
        vs \in SnapSkillLists, vp \in SnapProjectLists,
        n \in BOOLEAN, h \in BOOLEAN, s \in BOOLEAN}

\* The richest snapshot of a set.
Richest(S) ==
    CHOOSE x \in S : \A y \in S :
        /\ Len(y.verified_skills) <= Len(x.verified_skills)
        /\ Len(y.verified_projects) <= Len(x.verified_projects)
        /\ y.repositories <= x.repositories /\ y.languages <= x.languages
        /\ y.contributions <= x.contributions /\ y.tweets <= x.tweets
        /\ (y.profile.name => x.profile.name)
        /\ (y.profile.headline => x.profile.headline)
        /\ (y.profile.skills => x.profile.skills)
\* The skipped source, the bare error dict and the richest snapshot.
Corners(S) == {EmptySnapshot, ErrorSnapshot, Richest(S)}
\* Every snapshot of S, the corners, and the richest one carrying an error.
Detailed(S) == S \cup Corners(S) \cup {[Richest(S) EXCEPT !.error = TRUE]}

\* One source ranges over all its snapshots while the two others range over
\* the corner snapshots.
SnapshotTriples ==
    ({<<g, t, l>> : g \in Detailed(GithubSnapshots),
                    t \in Corners(TwitterSnapshots), l \in Corners(LinkedinSnapshots)}
     \cup
     {<<g, t, l>> : g \in Corners(GithubSnapshots),
                    t \in Detailed(TwitterSnapshots),
                    l \in Corners(LinkedinSnapshots)})
    \cup
     {<<g, t, l>> : g \in Corners(GithubSnapshots),
                    t \in Corners(TwitterSnapshots),
                    l \in Detailed(LinkedinSnapshots)}

NoFeed == [skills |-> <<>>, projects |-> <<>>,
           github |-> EmptySnapshot, twitter |-> EmptySnapshot,
           linkedin |-> EmptySnapshot]

ScoreInit ==
    /\ resume_storage = NoStore
    /\ verification_storage = NoStore
    /\ score_storage = NoStore
    /\ response = NoResponse
    /\ gemini = NoStore
    /\ temp_files = NoStore
    /\ task = NoStore
    /\ lib = AllAvailable
    /\ calls = NoStore
    /\ returned = NoReturn
    /\ \E skills \in SeqUpTo(SkillNames, MaxClaims),
          projects \in SeqUpTo(ProjectNames, MaxProjects),
          triple \in SnapshotTriples :
            feed = [skills |-> skills, projects |-> projects,
                    github |-> triple[1], twitter |-> triple[2],
                    linkedin |-> triple[3]]

\* process_verification on the fed claim lists, the three source calls
\* returning the fed snapshots.
FeedVerification(resume_id) ==
    /\ resume_id \notin DOMAIN verification_storage
    /\ verification_storage' =
          Put(verification_storage, resume_id,
              verification_result(resume_id, feed.skills, feed.projects,
                                  feed.github, feed.twitter, feed.linkedin))
    /\ response' = Response("process_verification", resume_id, 200, "completed")
    /\ UNCHANGED <<resume_storage, score_storage, gemini, feed, temp_files, task, lib, calls, returned>>

ScoreNext ==
    \/ \E id \in ResumeIds : FeedVerification(id)
    \/ \E id \in ResumeIds, reply \in AiReplies : GetScore(id, reply)

ScoreSpec == ScoreInit /\ [][ScoreNext]_vars

\* ------------------------------------------------------- pipeline actions
\* upload_resume.  file is the uploaded file: its extension, what each PDF
\* backend / the DOCX reader does on it, and what its text contains.
Fresh(resume_id) == resume_id \notin DOMAIN resume_storage /\ resume_id \notin DOMAIN task
UploadResume(resume_id, file, form) ==
    /\ Fresh(resume_id)
    /\ IF lower(file.ext) \notin {".pdf", ".docx"}
       THEN /\ response' = Response("upload_resume", resume_id, 400, "rejected")
            /\ UNCHANGED <<resume_storage, temp_files, task>>
       ELSE /\ temp_files' = Put(temp_files, resume_id, file)
            /\ resume_storage' =
                  Put(resume_storage, resume_id, [NoResume EXCEPT !.status = "processing"])
            /\ task' = Put(task, resume_id,
                           [pc |-> "queued", file |-> file, form |-> form,
                            text |-> NoText, tried |-> <<>>, extracted |-> FALSE,
                            parsed_data |-> NoParsed])
            /\ response' = Response("upload_resume", resume_id, 200, "processing")
    /\ UNCHANGED <<verification_storage, score_storage, gemini, feed, lib, calls, returned>>

\* process_resume, the background task queued by upload_resume.
ProcessResume(resume_id) ==
    /\ resume_id \in DOMAIN task
    /\ task[resume_id].pc = "queued"
    /\ LET file == task[resume_id].file
       IN  \E order \in SetOrders(FoundIn(file, ExtractText(lib, file).text)) :
             LET stored(parse, r) ==
                     /\ resume_storage' = Put(resume_storage, resume_id, r.record)
                     /\ temp_files' =
                           IF r.remove
                           THEN [k \in DOMAIN temp_files \ {resume_id} |-> temp_files[k]]
                           ELSE temp_files
                     /\ task' = Put(task, resume_id,
                                    [task[resume_id] EXCEPT
                                        !.pc = "done", !.text = parse.text,
                                        !.tried = parse.tried,
                                        !.extracted = parse.extracted,
                                        !.parsed_data = parse.parsed_data])
                 processed(parse) ==
                     stored(parse,
                            process_resume(resume_id, resume_id \in DOMAIN temp_files,
                                           parse, file, task[resume_id].form))
             IN  processed(parse_resume_with_text(lib, file, order))
    /\ UNCHANGED <<verification_storage, score_storage, response, gemini, feed, lib, calls, returned>>

\* start_verification, process_verification included.
StartVerification_early(resume_id, request, env) ==
    /\ verification_storage' =
          Put(verification_storage, resume_id,
              [resume_id |-> resume_id, status |-> "processing"])
    /\ response' =
          IF resume_id \notin DOMAIN resume_storage
          THEN Response("start_verification", resume_id, 404, "not_found")
          ELSE IF resume_storage[resume_id].status # "completed"
          THEN Response("start_verification", resume_id, 400, resume_storage[resume_id].status)
          ELSE Response("start_verification", resume_id, 200, "completed")
    /\ UNCHANGED <<resume_storage, calls, score_storage, gemini, feed, temp_files, task, lib, returned>>
StartVerification(resume_id, request, env) ==
    /\ IF resume_id \notin DOMAIN resume_storage
       THEN /\ response' = Response("start_verification", resume_id, 404, "not_found")
            /\ UNCHANGED <<resume_storage, verification_storage, calls>>
       ELSE IF resume_storage[resume_id].status # "completed"
       THEN /\ response' = Response("start_verification", resume_id, 400,
                                    resume_storage[resume_id].status)
            /\ UNCHANGED <<resume_storage, verification_storage, calls>>
       ELSE LET stored == resume_storage[resume_id]
                resume_data ==
                    [stored EXCEPT
                        !.skills = IF stored.skills = <<>>
                                   THEN <<"Python", "Data Analysis">> ELSE stored.skills,
                        !.projects = EnsureProjects(stored.projects)]
                r == process_verification(resume_id, resume_data, request, env)
            IN  /\ resume_storage' = Put(resume_storage, resume_id, resume_data)
                /\ verification_storage' = Put(verification_storage, resume_id, r.record)
                /\ calls' = Put(calls, resume_id,
                                [request |-> request, outcome |-> r.calls,
                                 skills |-> r.skills, projects |-> r.projects])
                /\ response' = Response("start_verification", resume_id, 200, "completed")
    /\ UNCHANGED <<score_storage, gemini, feed, temp_files, task, lib, returned>>

\* ------------------------------------------------------ the pipeline (Spec)
HasText == [pdfplumber |-> "content", PyMuPDF |-> "content", pdfminer |-> "content", PyPDF2 |-> "content"]
NoTextLayer == [pdfplumber |-> "blank", PyMuPDF |-> "blank", pdfminer |-> "empty", PyPDF2 |-> "raise"]
NoForm == [name |-> None, email |-> None]

\* What the extractors find in a full resume and in a short note.
FullResume ==
    [NothingFound EXCEPT
        !.name = Returns("Ann Lee"), !.email = Returns("ann@example.com"),
        !.skills = Returns(<<"Python", "React">>),
        !.projects = Returns(<<"Questfi">>),
        !.experience = Returns(<<"Engineer at Acme">>),
        !.education = Returns(<<"BSc">>),
        !.github_username = Returns("octocat")]
ShortNote == [NothingFound EXCEPT !.email = Returns("ann@example.com")]

File(ext, backends, docx, found, keyword, long) ==
    [ext |-> ext, backends |-> backends, docx |-> docx, found |-> found,
     keyword |-> keyword, long |-> long]
PipelineFiles ==
    {File(".pdf", HasText, "raise", FullResume, TRUE, TRUE),
     File(".pdf", HasText, "raise", [FullResume EXCEPT !.additional_skills = Returns(<<"Leadership">>), !.skills = Returns(<<"Python">>)], TRUE, TRUE),
     File(".pdf", HasText, "raise", ShortNote, FALSE, FALSE),
     File(".pdf", NoTextLayer, "raise", FullResume, TRUE, TRUE),
     File(".PDF", HasText, "raise", FullResume, TRUE, TRUE),
     File(".docx", HasText, "content", [FullResume EXCEPT !.skills = Returns(<<>>), !.github_username = Returns(None)], TRUE, FALSE),
     File(".docx", HasText, "raise", FullResume, TRUE, TRUE),
     File(".docx", HasText, "content", [FullResume EXCEPT !.projects = Returns(<<>>)], TRUE, TRUE),
     File(".txt", HasText, "raise", FullResume, TRUE, TRUE)}

\* Requests: no user name, all three, or all but the GitHub one.
Request(github_username, twitter_username, linkedin_username) ==
    [github_username |-> github_username, twitter_username |-> twitter_username,
     linkedin_username |-> linkedin_username]
Requests ==
    {Request(None, None, None), Request("octocat", "octocat", "octocat"),
     Request(None, "octocat", "octocat")}
Call(outcome, evidence, repos, languages) ==
    [outcome |-> outcome, evidence |-> evidence, repos |-> repos,
     languages |-> languages, mentioned |-> {}]
\* GitHub: the mock repositories (3 languages), or an account with 4
\* repositories (2 languages) one of which is named after the project; of
\* the skill names used here the languages, repository names and
\* descriptions of both match Python, React (through its related term
\* "ts") and Data Analysis (through "data").
\* LinkedIn: the mock profile, or a profile that lists Python only.
GithubEvidence == {"Python", "React", "Data Analysis"}
GithubCalls == {Call("ok", GithubEvidence, get_mock_repositories, 3), Call("ok", GithubEvidence, AccountRepos, 2)}
TwitterCalls == {Call("ok", MockTweetMentions, <<>>, 0)}
LinkedinCalls == {Call("ok", MockProfileSkills, <<>>, 0), Call("ok", {"Python"}, <<>>, 0)}
AnsweringEnvironments == [github : GithubCalls, twitter : TwitterCalls, linkedin : LinkedinCalls]
RealAccounts ==
    [github |-> Call("ok", GithubEvidence, AccountRepos, 2),
     twitter |-> Call("ok", MockTweetMentions, <<>>, 0),
     linkedin |-> Call("ok", {"Python"}, <<>>, 0)]
\* Environments: every source answers, or one source fails at one of the
\* three points, or the fetch of every source fails.
Environments ==
    AnsweringEnvironments
    \cup {[RealAccounts EXCEPT ![s].outcome = o] : s \in Sources, o \in RaiseOutcomes}
    \cup {[s \in Sources |-> [RealAccounts[s] EXCEPT !.outcome = "fetch_raises"]]}

Init ==
    /\ resume_storage = NoStore
    /\ verification_storage = NoStore
    /\ score_storage = NoStore
    /\ response = NoResponse
    /\ gemini = NoStore
    /\ feed = NoFeed
    /\ temp_files = NoStore
    /\ task = NoStore
    /\ lib = AllAvailable
    /\ calls = NoStore
    /\ returned = NoReturn

Next ==
    \/ \E id \in {i \in ResumeIds : Fresh(i)}, file \in PipelineFiles :
          UploadResume(id, file, NoForm)
    \/ \E id \in ResumeIds : ProcessResume(id)
    \/ \E id \in ResumeIds, request \in Requests, env \in Environments :
          StartVerification(id, request, env)
    \/ \E id \in ResumeIds, reply \in AiReplies : GetScore(id, reply)

Spec == Init /\ [][Next]_vars

\* ------------------------------------- text extraction harness (ParseSpec)
\* upload_resume and process_resume on files for which the PDF backends and
\* the DOCX reader behave in every way, under every set of importable
\* libraries.
BackendOutcomes == {"raise", "empty", "blank", "nulls", "content"}
DocxOutcomes == {"raise", "empty", "content"}
Flags == [pdfplumber : BOOLEAN, PyMuPDF : BOOLEAN, pdfminer : BOOLEAN]
ParseFiles ==
    {File(".pdf", [k \in Range(Backends) |-> o[k]], "raise", found, TRUE, TRUE) :
        o \in [Range(Backends) -> BackendOutcomes], found \in {FullResume, ShortNote}}
    \cup {File(".docx", HasText, d, FullResume, TRUE, TRUE) : d \in DocxOutcomes}
    \cup {File(e, HasText, "content", FullResume, TRUE, TRUE) :
            e \in {".PDF", ".DOCX", ".doc", ".txt"}}

ParseInit ==
    /\ resume_storage = NoStore
    /\ verification_storage = NoStore
    /\ score_storage = NoStore
    /\ response = NoResponse
    /\ gemini = NoStore
    /\ feed = NoFeed
    /\ temp_files = NoStore
    /\ task = NoStore
    /\ lib \in Flags
    /\ calls = NoStore
    /\ returned = NoReturn

ParseNext ==
    \/ \E id \in {i \in ResumeIds : Fresh(i)}, file \in ParseFiles :
          UploadResume(id, file, NoForm)
    \/ \E id \in ResumeIds : ProcessResume(id)

ParseSpec == ParseInit /\ [][ParseNext]_vars

\* ------------------------------------ claim extraction harness (ExtractSpec)
\* upload_resume and process_resume on DOCX files with content, on which at
\* most one field extractor raises and every other one finds something or
\* nothing.
Something ==
    [name |-> Returns("Ann Lee"), email |-> Returns("ann@example.com"),
     phone |-> Returns("555-0100"), skills |-> Returns(<<"Python", "Git">>),
     additional_skills |-> Returns(<<"Leadership">>),
     projects |-> Returns(<<"Questfi">>),
     experience |-> Returns(<<"Engineer at Acme">>),
     education |-> Returns(<<"BSc">>), github_username |-> Returns("octocat"),
     twitter_username |-> Returns("octocat"),
     linkedin_username |-> Returns("octocat")]
Found(raiser, finding) ==
    [f \in Range(Extractors) |->
        IF f = raiser THEN [NothingFound[f] EXCEPT !.raises = TRUE]
        ELSE IF f \in finding THEN Something[f] ELSE NothingFound[f]]
ExtractFound ==
    {Found(raiser, finding) :
        raiser \in Range(Extractors) \cup {"none"}, finding \in SUBSET Range(Extractors)}
ExtractFiles == {File(".docx", HasText, "content", found, TRUE, TRUE) : found \in ExtractFound}
Forms == {NoForm, [name |-> "Ann B. Lee", email |-> None]}

ExtractNext ==
    \/ \E id \in {i \in ResumeIds : Fresh(i)}, file \in ExtractFiles, form \in Forms :
          UploadResume(id, file, form)
    \/ \E id \in ResumeIds : ProcessResume(id)

ExtractSpec == Init /\ [][ExtractNext]_vars

\* ------------------------------------- resume heuristic harness (SanitySpec)
\* upload_resume and process_resume on DOCX files in which any subset of the
\* fields the heuristic counts is found, with and without a section keyword,
\* shorter and not shorter than 300 characters; and on a DOCX file without
\* text.
SignalFields == {"email", "phone", "skills", "education", "experience", "projects"}
SanityFound == {Found("none", finding) : finding \in SUBSET (SignalFields \cup {"additional_skills"})}
SanityFiles ==
    {File(".docx", HasText, "content", found, keyword, long) :
        found \in SanityFound, keyword \in BOOLEAN, long \in BOOLEAN}
    \cup {File(".docx", HasText, "empty", NothingFound, FALSE, FALSE)}

SanityNext ==
    \/ \E id \in {i \in ResumeIds : Fresh(i)}, file \in SanityFiles :
          UploadResume(id, file, NoForm)
    \/ \E id \in ResumeIds : ProcessResume(id)

SanitySpec == Init /\ [][SanityNext]_vars

\* ------------------------------------------- field extractors (TextSpec)
\* upload_resume and process_resume on DOCX files whose text has a skills
\* section of up to MaxItems items, or a skills section of up to
\* MaxMergedItems items followed by an achievements section, or a list of
\* up to MaxCandidates project candidates.
MaxItems == 4
MaxMergedItems == 2
MaxCandidates == 3
SkillItems == {"Python", "React", "C", "JavaScript"}
MergedItems == {"Python", "time management", "Leadership"}
ProjectCandidates == {"Questfi", "- questfi:", "App", "QUESTFI [Link]"}
RECURSIVE Join(_)
Join(items) ==
    IF items = <<>> THEN ""
    ELSE IF Len(items) = 1 THEN items[1]
    ELSE items[1] \o ", " \o Join(Tail(items))
ResumeKeywords ==
    {"experience", "work experience", "education", "skills", "projects", "summary",
     "objective", "certifications"}
TextFile(text) ==
    [ext |-> ".docx", backends |-> HasText, docx |-> "content",
     found |-> FoundInText(text),
     keyword |-> \E k \in ResumeKeywords : Contains(k, lower(RawText(text))),
     long |-> Len(RawText(text)) >= 300,
     content |-> text]
Texts ==
    {ResumeText(Join(items), None, <<>>) : items \in SeqUpTo(SkillItems, MaxItems)}
    \cup {ResumeText(Join(items), "met every deadline", <<>>) :
            items \in SeqUpTo(MergedItems, MaxMergedItems)}
    \cup {ResumeText("Python", None, projects) :
            projects \in SeqUpTo(ProjectCandidates, MaxCandidates)}
TextFiles == {TextFile(text) : text \in Texts}

TextNext ==
    \/ \E id \in {i \in ResumeIds : Fresh(i)}, file \in TextFiles :
          UploadResume(id, file, NoForm)
    \/ \E id \in ResumeIds : ProcessResume(id)

TextSpec == Init /\ [][TextNext]_vars

\* ---------------------------------------------- repeated runs (RerunSpec)
\* Two uploads, each processed by its own run of process_resume, of files
\* with a skills section of at most one item followed by an achievements
\* section, or with a skills section only.  The order in which list(set(...))
\* yields the merged skills depends on the string hash seed of the process
\* that runs the task; ProcessResume draws it per run.
Reruns == {"r1", "r2"}
RerunTexts ==
    {ResumeText(Join(items), "met every deadline", <<>>) : items \in SeqUpTo(MergedItems, 1)}
    \cup {ResumeText("Python, React", None, <<>>)}
RerunFiles == {TextFile(text) : text \in RerunTexts}

RerunNext ==
    \/ \E id \in {i \in Reruns : Fresh(i)}, file \in RerunFiles :
          UploadResume(id, file, NoForm)
    \/ \E id \in Reruns : ProcessResume(id)

RerunSpec == Init /\ [][RerunNext]_vars

\* ---------------------------------------------- source calls (SourceSpec)
\* One direct call of one of the three verify_*_claims functions on skill
\* and project lists (at most MaxSourceClaims claims together) with
\* repeated entries and names with surrounding whitespace.
\* GitHub: the repositories of test_project_matching.py, the mock
\* repositories, or a failing fetch.  LinkedIn: a profile that lists React
\* and the project portfolio and whose experience mentions Leadership and
\* Questfi, or a failing fetch.
MaxSourceClaims == 2
SourceGithubCalls ==
    {Call("ok", GithubEvidence, TestRepos, 2), Call("ok", GithubEvidence, get_mock_repositories, 3),
     Call("fetch_raises", {}, <<>>, 0)}
SourceTwitterCalls == {Call("ok", MockTweetMentions, <<>>, 0), Call("fetch_raises", {}, <<>>, 0)}
SourceLinkedinCalls ==
    {[Call("ok", {"React", "portfolio"}, <<>>, 0) EXCEPT !.mentioned = {"Leadership", "Questfi"}],
     Call("fetch_raises", {}, <<>>, 0)}
Returned(source, skills, projects, call, result) ==
    [source |-> source, skills |-> skills, projects |-> projects, call |-> call, result |-> result]

VerifyGithub(skills, projects, call) ==
    /\ returned.source = "none"
    /\ returned' = Returned("github", skills, projects, call,
                            verify_github_claims(call, skills, projects))
    /\ UNCHANGED <<resume_storage, verification_storage, score_storage, response, gemini, feed, temp_files, task, lib, calls>>
VerifyTwitter(skills, projects, call) ==
    /\ returned.source = "none"
    /\ returned' = Returned("twitter", skills, projects, call,
                            verify_twitter_claims(call, skills, projects))
    /\ UNCHANGED <<resume_storage, verification_storage, score_storage, response, gemini, feed, temp_files, task, lib, calls>>
VerifyLinkedin(skills, projects, call) ==
    /\ returned.source = "none"
    /\ returned' = Returned("linkedin", skills, projects, call,
                            verify_linkedin_claims(call, skills, projects))
    /\ UNCHANGED <<resume_storage, verification_storage, score_storage, response, gemini, feed, temp_files, task, lib, calls>>

SourceNext ==
    \E skills \in SeqUpTo(SourceSkills, MaxSourceClaims),
       projects \in SeqUpTo(SourceProjects, MaxSourceClaims) :
        /\ Len(skills) + Len(projects) <= MaxSourceClaims
        /\ \/ \E call \in SourceGithubCalls : VerifyGithub(skills, projects, call)
           \/ \E call \in SourceTwitterCalls : VerifyTwitter(skills, projects, call)
           \/ \E call \in SourceLinkedinCalls : VerifyLinkedin(skills, projects, call)

SourceSpec == Init /\ [][SourceNext]_vars

\* ------------------------------------- process_resume in steps (PollSpec)
\* process_resume is a plain function, which the framework runs in a worker
\* thread after the answer of upload_resume was sent: its first write
\* (BeginProcess), its last write and the removal of the file
\* (FinishProcess) interleave with the handlers.  get_resume is the reader.
BeginProcess(resume_id) ==
    /\ resume_id \in DOMAIN task
    /\ task[resume_id].pc = "queued"
    /\ resume_storage' =
          Put(resume_storage, resume_id,
              [NoResume EXCEPT !.resume_id = resume_id, !.status = "processing"])
    /\ task' = Put(task, resume_id, [task[resume_id] EXCEPT !.pc = "started"])
    /\ UNCHANGED <<verification_storage, score_storage, response, gemini, feed, temp_files, lib, calls, returned>>

\* What process_resume computes after its first write, for every stored file,
\* order of the found skills and state of the temp file: the result of
\* parse_resume_with_text and the (record, remove) pair of process_resume.
\* The libraries are the installed ones and upload_resume passed no form data.
ProcessOutcomes ==
    UNION {{[resume_id |-> resume_id, file |-> file, file_exists |-> file_exists,
             parse |-> parse_resume_with_text(AllAvailable, file, order),
             r |-> process_resume(resume_id, file_exists,
                                  parse_resume_with_text(AllAvailable, file, order),
                                  file, NoForm)] :
              resume_id \in ResumeIds, file_exists \in BOOLEAN,
              order \in SetOrders(FoundIn(file, ExtractText(AllAvailable, file).text))} :
           file \in PipelineFiles}

FinishProcess(resume_id) ==
    /\ resume_id \in DOMAIN task
    /\ task[resume_id].pc = "started"
    /\ lib = AllAvailable /\ task[resume_id].form = NoForm
    /\ \E o \in {x \in ProcessOutcomes :
                    /\ x.resume_id = resume_id
                    /\ x.file = task[resume_id].file
                    /\ x.file_exists = (resume_id \in DOMAIN temp_files)} :
          /\ resume_storage' = Put(resume_storage, resume_id, o.r.record)
          /\ temp_files' =
                IF o.r.remove
                THEN [k \in DOMAIN temp_files \ {resume_id} |-> temp_files[k]]
                ELSE temp_files
          /\ task' = Put(task, resume_id,
                         [task[resume_id] EXCEPT
                             !.pc = "done", !.text = o.parse.text,
                             !.tried = o.parse.tried,
                             !.extracted = o.parse.extracted,
                             !.parsed_data = o.parse.parsed_data])
    /\ UNCHANGED <<verification_storage, score_storage, response, gemini, feed, lib, calls, returned>>

\* get_resume
GetResume(resume_id) ==
    /\ response' =
          IF resume_id \notin DOMAIN resume_storage
          THEN Response("get_resume", resume_id, 404, "not_found")
          ELSE IF resume_storage[resume_id].status = "processing"
          THEN Response("get_resume", resume_id, 202, "processing")
          ELSE Response("get_resume", resume_id, 200, resume_storage[resume_id].status)
    /\ UNCHANGED <<resume_storage, verification_storage, score_storage, gemini, feed, temp_files, task, lib, calls, returned>>

PollNext ==
    \/ \E id \in {i \in ResumeIds : Fresh(i)}, file \in PipelineFiles :
          UploadResume(id, file, NoForm)
    \/ \E id \in ResumeIds : BeginProcess(id)
    \/ \E id \in ResumeIds : FinishProcess(id)
    \/ \E id \in ResumeIds : GetResume(id)
    \/ \E id \in ResumeIds, request \in Requests : StartVerification(id, request, RealAccounts)

\* The worker thread runs a queued task and does not stop inside it.
PollSpec ==
    /\ Init /\ [][PollNext]_vars
    /\ \A id \in ResumeIds : WF_vars(BeginProcess(id)) /\ WF_vars(FinishProcess(id))

\* ------------------------------------ two submissions, stage by stage (StageSpec)
\* Two uploads handled in any interleaving.  start_verification and
\* get_score are coroutines without a suspension point between their first
\* read and their last write, so each is one step; process_resume runs in
\* a worker thread, one step per task here.
Submissions == {"r1", "r2"}
StageFiles ==
    {File(".pdf", HasText, "raise", FullResume, TRUE, TRUE),
     File(".pdf", HasText, "raise", ShortNote, FALSE, FALSE),
     File(".txt", HasText, "raise", FullResume, TRUE, TRUE)}
StageEnvironments ==
    {RealAccounts, [s \in Sources |-> [RealAccounts[s] EXCEPT !.outcome = "fetch_raises"]]}
StageReplies == {[ok |-> TRUE, n |-> 37]}

\* start_verification when an exception is raised inside the try block of
\* process_verification before the first source is called: the handler of
\* process_verification stores an error record and returns normally
\* (verification.py 283-289), so the try block of start_verification
\* completes and the answer is "completed" (101-105).
VerificationFault(resume_id, request) ==
    /\ resume_id \in DOMAIN resume_storage
    /\ resume_storage[resume_id].status = "completed"
    /\ resume_storage' =
          Put(resume_storage, resume_id,
              [resume_storage[resume_id] EXCEPT
                  !.skills = IF @ = <<>> THEN <<"Python", "Data Analysis">> ELSE @,
                  !.projects = EnsureProjects(@)])
    /\ verification_storage' =
          Put(verification_storage, resume_id,
              [resume_id |-> resume_id, status |-> "error", error |-> "raised"])
    /\ response' = Response("start_verification", resume_id, 200, "completed")
    /\ UNCHANGED <<score_storage, gemini, feed, temp_files, task, lib, calls, returned>>

\* The operations on one submission.
Handles(id) ==
    \/ Fresh(id) /\ \E file \in StageFiles : UploadResume(id, file, NoForm)
    \/ ProcessResume(id)
    \/ \E env \in StageEnvironments : StartVerification(id, Request(None, None, None), env)
    \/ VerificationFault(id, Request(None, None, None))
    \/ \E reply \in StageReplies : GetScore(id, reply)

StageNext ==
    \/ \E id \in {i \in Submissions : Fresh(i)}, file \in StageFiles :
          UploadResume(id, file, NoForm)
    \/ \E id \in Submissions : ProcessResume(id)
    \/ \E id \in Submissions, env \in StageEnvironments :
          StartVerification(id, Request(None, None, None), env)
    \/ \E id \in Submissions : VerificationFault(id, Request(None, None, None))
    \/ \E id \in Submissions, reply \in StageReplies : GetScore(id, reply)

StageSpec == Init /\ [][StageNext]_vars

\* ------------------------------- get_user_repositories, page by page (PageSpec)
\* One call of get_user_repositories.  feed holds the inputs: MOCK_MODE, the
\* username and, per page number, what requests.get does for that page: an
\* HTTP status with the number of repositories in the body, or a
\* RequestException (NetworkError, written as status 0).  Past the last described page the
\* account has no more repositories.  task holds the position and the
\* locals of the call, returned its result.
per_page == 100
NetworkError == 0
Return(value) == [raised |-> FALSE, value |-> value]
Raise == [raised |-> TRUE, value |-> <<>>]
MaxPages == 3
PageSizes == {0, 99, per_page}
PageAnswers ==
    {[status |-> 200, n |-> n] : n \in PageSizes}
    \cup {[status |-> s, n |-> 0] : s \in {404, 403, 500, NetworkError}}
NoMorePages == [status |-> 200, n |-> 0]
\* The body of page p: n repositories, named after page and position.
PageRepos(p, n) ==
    [i \in 1..n |-> Repo("p" \o ToString(p) \o "r" \o ToString(i), "")]
Answer(server, p) == IF p \in DOMAIN server THEN server[p] ELSE NoMorePages

PageInit ==
    /\ resume_storage = NoStore
    /\ verification_storage = NoStore
    /\ score_storage = NoStore
    /\ response = NoResponse
    /\ gemini = NoStore
    /\ temp_files = NoStore
    /\ lib = AllAvailable
    /\ calls = NoStore
    /\ returned = NoReturn
    /\ task = [pc |-> "called", page |-> 0, all_repos |-> <<>>, requested |-> <<>>]
    /\ \E mock \in BOOLEAN, username \in {"", "octocat"},
          server \in [1..MaxPages -> PageAnswers] :
            feed = [MOCK_MODE |-> mock, username |-> username, server |-> server]

\* What get_user_repositories returns when a page fails with a status other
\* than 404 or with a RequestException.
OnFailure_raise(page, all_repos) == Raise
OnFailure(page, all_repos) ==
    Return(IF page = 1 THEN get_mock_repositories ELSE all_repos)

\* Entry: mock mode and the missing username return the mock data.
EnterFetch ==
    /\ task.pc = "called"
    /\ IF feed.MOCK_MODE \/ feed.username = ""
       THEN /\ task' = [task EXCEPT !.pc = "returned"]
            /\ returned' = Return(get_mock_repositories)
       ELSE /\ task' = [task EXCEPT !.pc = "loop", !.page = 1]
            /\ UNCHANGED returned
    /\ UNCHANGED <<resume_storage, verification_storage, score_storage, response, gemini, feed, temp_files, lib, calls>>

\* One iteration of the while loop: the request of page task.page.
RequestPage ==
    /\ task.pc = "loop"
    /\ task.page <= MaxPages + 1
    /\ \E answer \in {Answer(feed.server, task.page)} :
         \E repos \in {PageRepos(task.page, answer.n)} :
          IF answer.status = 404
          THEN /\ returned' = Return(get_mock_repositories)
               /\ task' = [task EXCEPT !.pc = "returned", !.requested = Append(@, task.page)]
          ELSE IF answer.status # 200
          THEN /\ returned' = OnFailure(task.page, task.all_repos)
               /\ task' = [task EXCEPT !.pc = "returned", !.requested = Append(@, task.page)]
          ELSE IF answer.n = 0
          THEN /\ returned' = Return(task.all_repos)
               /\ task' = [task EXCEPT !.pc = "returned", !.requested = Append(@, task.page)]
          ELSE IF answer.n < per_page
          THEN /\ returned' = Return(task.all_repos \o repos)
               /\ task' = [task EXCEPT !.pc = "returned", !.all_repos = @ \o repos,
                                       !.requested = Append(@, task.page)]
          ELSE /\ task' = [task EXCEPT !.page = @ + 1, !.all_repos = @ \o repos,
                                       !.requested = Append(@, task.page)]
               /\ UNCHANGED returned
    /\ UNCHANGED <<resume_storage, verification_storage, score_storage, response, gemini, feed, temp_files, lib, calls>>

PageNext == EnterFetch \/ RequestPage
PageSpec == PageInit /\ [][PageNext]_vars

\* =================================================================== claims
Count(x, s) == Cardinality({i \in 1..Len(s) : s[i] = x})
InRange(r) == RLE(RInt(0), r) /\ RLE(r, RInt(100))
Verified(id) == id \in DOMAIN verification_storage
                   /\ verification_storage[id].status = "completed"
Scored(id) == id \in DOMAIN score_storage

\* C1 (ScoreSpec): after process_verification, for any claim lists and any
\* three snapshots, every claimed skill / project sits in exactly one of the
\* verified / unverified buckets: the bucket lengths add up to the number of
\* claims, each claim occurs in the buckets as often as in the claim list,
\* and no claim is in both buckets.
PartitionOf(claims, verified, unverified) ==
    /\ Len(verified) + Len(unverified) = Len(claims)
    /\ \A c \in Range(claims) :
          /\ Count(c, verified) + Count(c, unverified) = Count(c, claims)
          /\ ~(In(c, verified) /\ In(c, unverified))
    /\ Range(verified) \cup Range(unverified) \subseteq Range(claims)
C1_PartitionTotal ==
    \A id \in ResumeIds : Verified(id) =>
        LET v == verification_storage[id]
        IN  /\ PartitionOf(feed.skills, v.verified_skills, v.unverified_skills)
            /\ PartitionOf(feed.projects, v.verified_projects, v.unverified_projects)
\* Both skill buckets are used while one source carries an error and
\* another one was skipped.
C1_Witness ==
    \E id \in ResumeIds :
        /\ Verified(id)
        /\ Len(verification_storage[id].verified_skills) = 1
        /\ Len(verification_storage[id].unverified_skills) = 1
        /\ Len(verification_storage[id].verified_projects) = 1
        /\ verification_storage[id].github.error
        /\ ~verification_storage[id].linkedin.present

\* C2 (ScoreSpec): every sub-score of the breakdown and the final score lie
\* in [0, 100].
C2_ScoreBounds ==
    \A id \in ResumeIds : Scored(id) =>
        LET b == score_storage[id].breakdown
        IN  /\ InRange(b.github_score) /\ InRange(b.twitter_score)
            /\ InRange(b.linkedin_score) /\ InRange(b.skills_score)
            /\ InRange(b.projects_score) /\ InRange(score_storage[id].score)
\* A code-hosting snapshot in which every component exceeds its cap.
C2_Witness ==
    \E id \in ResumeIds :
        /\ Scored(id)
        /\ verification_storage[id].github.repositories > 5
        /\ verification_storage[id].github.languages > 5
        /\ verification_storage[id].github.contributions > 500
        /\ Len(verification_storage[id].github.verified_skills) > 10
        /\ score_storage[id].breakdown.github_score = RInt(100)

\* C3 as claimed (ScoreSpec): the final score is the weighted composite of
\* the five sub-scores of the breakdown, and nothing else:
\* 20 * final = 5*github + 3*twitter + 2*linkedin + 6*skills + 4*projects.
WeightedSum(b) ==
    RAdd(RAdd(RAdd(RMul(RInt(5), b.github_score), RMul(RInt(3), b.twitter_score)),
              RAdd(RMul(RInt(2), b.linkedin_score), RMul(RInt(6), b.skills_score))),
         RMul(RInt(4), b.projects_score))
C3_FinalIsComposite ==
    \A id \in ResumeIds : Scored(id) =>
        RMul(RInt(20), score_storage[id].score) = WeightedSum(score_storage[id].breakdown)
\* C3 as amended (ScoreSpec): the final score is the weighted composite
\* when the model call yields no score; when it yields a number, the final
\* score is that number, whatever the breakdown.
C3_CompositeUnlessAi ==
    \A id \in ResumeIds : Scored(id) =>
        IF gemini[id].ok
        THEN score_storage[id].score = RInt(gemini[id].n)
        ELSE RMul(RInt(20), score_storage[id].score)
                 = WeightedSum(score_storage[id].breakdown)
\* A rule-based final score to which source and content scores both
\* contribute.
C3_Witness ==
    \E id \in ResumeIds :
        /\ Scored(id) /\ ~gemini[id].ok
        /\ ~RLE(score_storage[id].breakdown.github_score, RInt(0))
        /\ ~RLE(score_storage[id].breakdown.linkedin_score, RInt(0))
        /\ ~RLE(score_storage[id].breakdown.skills_score, RInt(0))
        /\ ~RLE(score_storage[id].score, RInt(0))

\* C4 (ScoreSpec): for a code-hosting snapshot without error the sub-score
\* is min(25, 5*repos) + min(25, 5*languages) + min(20, contributions/25)
\* + min(30, 3*(verified skills + verified projects)); 4 repositories,
\* 3 languages, 500 contributions, 2 verified skills and 1 verified project
\* give 64.
ScenarioD(g) ==
    /\ g.present /\ ~g.error
    /\ g.repositories = 4 /\ g.languages = 3 /\ g.contributions = 500
    /\ Len(g.verified_skills) = 2 /\ Len(g.verified_projects) = 1
C4_GithubFormula ==
    \A id \in ResumeIds : Scored(id) =>
        LET g == verification_storage[id].github
            got == score_storage[id].breakdown.github_score
            whole == IMin(25, 5 * g.repositories) + IMin(25, 5 * g.languages)
                     + IMin(30, 3 * (Len(g.verified_skills) + Len(g.verified_projects)))
        IN  /\ (g.present /\ ~g.error) =>
                   25 * got.n = (25 * whole + IMin(500, g.contributions)) * got.d
            /\ ScenarioD(g) => got = RInt(64)
C4_Witness ==
    \E id \in ResumeIds : Scored(id) /\ ScenarioD(verification_storage[id].github)

\* C5 (ScoreSpec): the skills sub-score is 100 * verified / (verified +
\* unverified), likewise the projects sub-score; with both buckets of a
\* category empty the sub-score is 0 and nothing is divided by zero.
RatioScore(got, verified, unverified) ==
    /\ got.d > 0
    /\ IF Len(verified) + Len(unverified) = 0
       THEN got = RInt(0)
       ELSE got.n * (Len(verified) + Len(unverified)) = 100 * Len(verified) * got.d
C5_RatioScores ==
    \A id \in ResumeIds : Scored(id) =>
        LET s == score_storage[id]
        IN  /\ RatioScore(s.breakdown.skills_score, s.verified_skills, s.unverified_skills)
            /\ RatioScore(s.breakdown.projects_score, s.verified_projects,
                          s.unverified_projects)
\* No claim at all, although the sources report verified entries.
C5_Witness ==
    \E id \in ResumeIds :
        /\ Scored(id)
        /\ feed.skills = <<>> /\ feed.projects = <<>>
        /\ Len(verification_storage[id].github.verified_skills) > 0
        /\ score_storage[id].breakdown.skills_score = RInt(0)
        /\ score_storage[id].breakdown.projects_score = RInt(0)

\* C6 (ScoreSpec): a source whose snapshot carries an error, or is empty
\* because the source was skipped, scores 0 whatever else the snapshot
\* holds; the snapshot, error included, is what the completed verification
\* record stores, and the caller is answered normally.
SubScoreZeroed(snapshot, sub_score) ==
    (snapshot.error \/ ~snapshot.present) => sub_score = RInt(0)
C6_ErrorScoresZero ==
    \A id \in ResumeIds :
        /\ Verified(id) =>
              /\ verification_storage[id].github = feed.github
              /\ verification_storage[id].twitter = feed.twitter
              /\ verification_storage[id].linkedin = feed.linkedin
              /\ response.code = 200
        /\ Scored(id) =>
              LET v == verification_storage[id]
                  b == score_storage[id].breakdown
              IN  /\ SubScoreZeroed(v.github, b.github_score)
                  /\ SubScoreZeroed(v.twitter, b.twitter_score)
                  /\ SubScoreZeroed(v.linkedin, b.linkedin_score)
\* An error snapshot that holds repositories and verified claims.
C6_Witness ==
    \E id \in ResumeIds :
        /\ Scored(id)
        /\ verification_storage[id].github.error
        /\ verification_storage[id].github.repositories > 0
        /\ Len(verification_storage[id].github.verified_skills) > 0
        /\ verification_storage[id].twitter = ErrorSnapshot
        /\ score_storage[id].breakdown.github_score = RInt(0)

\* C7 (Spec): in a verification run, a source whose call raises (in the
\* fetch, in the match, or outside both) yields a snapshot that carries an
\* error and has empty verified_skills and verified_projects; every other
\* source for which a user name is known is still called and its snapshot is
\* stored as returned; every claimed skill and project is categorized; the
\* record has status "completed" and the caller of start_verification gets
\* the answer 200.
KnownUsername(id, s) ==
    \/ calls[id].request[s \o "_username"] # None
    \/ resume_storage[id][s \o "_username"] # None
C7_SourceFaultIsolated ==
    \A id \in ResumeIds : id \in DOMAIN calls =>
        LET v == verification_storage[id]
            outcome == calls[id].outcome
        IN  /\ v.status = "completed"
            /\ (response.op = "start_verification" /\ response.resume_id = id)
                  => response.code = 200
            /\ PartitionOf(resume_storage[id].skills,
                           v.verified_skills, v.unverified_skills)
            /\ PartitionOf(resume_storage[id].projects,
                           v.verified_projects, v.unverified_projects)
            /\ \A s \in Sources : outcome[s] \in RaiseOutcomes =>
                  /\ v[s].present /\ v[s].error
                  /\ v[s].verified_skills = <<>> /\ v[s].verified_projects = <<>>
                  /\ \A t \in Sources \ {s} :
                        /\ KnownUsername(id, t) => outcome[t] # "skipped"
                        /\ outcome[t] = "ok" => v[t].present /\ ~v[t].error
\* The match of GitHub raised, Twitter and LinkedIn were queried and
\* answered, and both skill buckets are used.
C7_Witness ==
    \E id \in ResumeIds :
        /\ id \in DOMAIN calls
        /\ calls[id].outcome.github = "match_raises"
        /\ calls[id].outcome.twitter = "ok"
        /\ calls[id].outcome.linkedin = "ok"
        /\ verification_storage[id].github.error
        /\ verification_storage[id].verified_skills # <<>>
        /\ verification_storage[id].unverified_skills # <<>>
        /\ verification_storage[id].status = "completed"

\* C8 (ExtractSpec): extract_information returns, and when the extractor of
\* one field raises, that field is left at None / empty (for skills: empty
\* or the default skills) while every other field, the ones extracted after
\* the failing one included, holds what its extractor found.
ClaimFields == Range(Extractors) \ {"additional_skills"}
InitialValue(field) ==
    IF field \in {"skills", "projects", "experience", "education"} THEN <<>> ELSE None
Extracted(id) == id \in DOMAIN task /\ task[id].pc = "done" /\ task[id].extracted
C8_FieldFailureIsolated ==
    \A id \in ResumeIds : Extracted(id) =>
        LET found == task[id].file.found
            parsed_data == task[id].parsed_data
        IN  \A f \in ClaimFields :
              IF found[f].raises
              THEN \/ parsed_data[f] = InitialValue(f)
                   \/ f = "skills" /\ parsed_data[f] = DefaultSkills
              ELSE IF f = "skills"
              THEN Range(found[f].value) \subseteq Range(parsed_data[f])
              ELSE parsed_data[f] = found[f].value
\* What the code does instead: the fields whose extractor runs before the
\* first failing one are extracted, the failing one and all later ones keep
\* their initial value.
C8_ExtractedUpToFailure ==
    \A id \in ResumeIds : Extracted(id) =>
        LET found == task[id].file.found
            parsed_data == task[id].parsed_data
        IN  \A f \in ClaimFields \ {"skills"} :
              parsed_data[f] = IF Ran(found, f) THEN found[f].value ELSE InitialValue(f)
\* extract_projects raised on a text in which a GitHub user name, experience
\* and education entries can be found.
C8_Witness ==
    \E id \in ResumeIds :
        /\ Extracted(id)
        /\ task[id].file.found.projects.raises
        /\ task[id].file.found.github_username.value = "octocat"
        /\ task[id].file.found.experience.value # <<>>
        /\ task[id].parsed_data.github_username = None
        /\ task[id].parsed_data.experience = <<>>

\* C9 (ParseSpec): extract_text_from_pdf runs the importable backends in the
\* order pdfplumber, PyMuPDF, pdfminer, PyPDF2.  A backend that raises or
\* returns a text without any non-whitespace character falls through to
\* the next one; the first backend that returns other text ends the run:
\* the backends run are exactly the importable ones up to and including
\* it, and the returned text comes from it.  When no backend returns such
\* text, all importable backends have been run.
AvailableBackends(flags) ==
    LET IsAvailable(b) == Available(flags, b)
    IN  SelectSeq(Backends, IsAvailable)
Yields(outcome) == outcome \in {"nulls", "content"}
ParsedPdf(id) ==
    /\ id \in DOMAIN task /\ task[id].pc = "done" /\ task[id].file.ext = ".pdf"
C9_BackendOrder ==
    \A id \in ResumeIds : ParsedPdf(id) =>
        LET outcomes == task[id].file.backends
            available == AvailableBackends(lib)
            tried == task[id].tried
            winners == {k \in 1..Len(available) : Yields(outcomes[available[k]])}
        IN  /\ Len(tried) <= Len(available)
            /\ \A k \in 1..Len(tried) : tried[k] = available[k]
            /\ \A k \in 1..(Len(tried) - 1) : ~Yields(outcomes[tried[k]])
            /\ IF winners = {}
               THEN tried = available /\ task[id].text = NoText
               ELSE /\ Yields(outcomes[tried[Len(tried)]])
                    /\ task[id].text.from = tried[Len(tried)]
\* pdfplumber raised, PyMuPDF returned whitespace, pdfminer returned text,
\* and PyPDF2, which would have returned text too, was not run.
C9_Witness ==
    \E id \in ResumeIds :
        /\ ParsedPdf(id)
        /\ task[id].file.backends.pdfplumber = "raise"
        /\ task[id].file.backends.PyMuPDF = "blank"
        /\ task[id].file.backends.pdfminer = "content"
        /\ task[id].file.backends.PyPDF2 = "content"
        /\ task[id].tried = <<"pdfplumber", "PyMuPDF", "pdfminer">>
        /\ task[id].text = [class |-> "content", from |-> "pdfminer"]

\* C10 (ParseSpec): for a file of a supported format, the submission ends
\* in an extraction failure (an error record, claim extraction not run)
\* exactly when every backend of the format raises or returns empty text,
\* and when some backend returns other text the extracted text is
\* non-empty.
Parsed(id) ==
    /\ id \in DOMAIN task /\ task[id].pc = "done"
    /\ task[id].file.ext \in {".pdf", ".docx"}
AllBackendsFail(id) ==
    IF task[id].file.ext = ".pdf"
    THEN \A k \in 1..Len(AvailableBackends(lib)) :
            ~Yields(task[id].file.backends[AvailableBackends(lib)[k]])
    ELSE task[id].file.docx # "content"
ExtractionFailed(id) ==
    /\ resume_storage[id].status = "error"
    /\ ~task[id].extracted
C10_ExtractionFailure ==
    \A id \in ResumeIds : Parsed(id) =>
        /\ AllBackendsFail(id) <=> ExtractionFailed(id)
        /\ ~AllBackendsFail(id) => Truthy(task[id].text)
\* What the code does instead: extract_information is run on every
\* extracted text, the empty one included.
C10_ExtractionAlwaysRun ==
    \A id \in ResumeIds : Parsed(id) => task[id].extracted
\* Every PDF backend failed, claim extraction ran on the empty text, and the
\* submission was rejected by the resume heuristic with its file left.
C10_Witness ==
    \E id \in ResumeIds :
        /\ Parsed(id) /\ AllBackendsFail(id)
        /\ task[id].file.ext = ".pdf"
        /\ task[id].text = NoText
        /\ task[id].extracted
        /\ task[id].parsed_data.skills = DefaultSkills
        /\ resume_storage[id].error = "This is not a resume"
        /\ id \in DOMAIN temp_files

\* C11 (ParseSpec): a file is refused as an unsupported format exactly when
\* its extension is neither PDF nor DOCX, compared without regard to case:
\* every file upload_resume accepts has such an extension, is handed to the
\* PDF or the DOCX extractor, and its processing does not end in
\* "Unsupported file format".
Accepted(id) == id \in DOMAIN task
Dispatched(id) ==
    \/ lower(task[id].file.ext) = ".pdf" /\ task[id].tried # <<>>
    \/ lower(task[id].file.ext) = ".docx" /\ task[id].extracted
C11_AcceptedIsDispatched ==
    \A id \in ResumeIds : Accepted(id) =>
        /\ lower(task[id].file.ext) \in {".pdf", ".docx"}
        /\ task[id].pc = "done" =>
              /\ Dispatched(id)
              /\ resume_storage[id].error # "Unsupported file format"
\* What the code does instead: the accepted files whose extension is
\* written in lower case are dispatched.
C11_LowerCaseIsDispatched ==
    \A id \in ResumeIds :
        Accepted(id) /\ task[id].pc = "done"
        /\ task[id].file.ext \in {".pdf", ".docx"} =>
              /\ Dispatched(id)
              /\ resume_storage[id].error # "Unsupported file format"
\* A file named in upper case was accepted by upload_resume and its
\* processing ended in the unsupported-format error, no extractor run.
C11_Witness ==
    \E id \in ResumeIds :
        /\ Accepted(id) /\ task[id].pc = "done"
        /\ task[id].file.ext \in {".PDF", ".DOCX"}
        /\ resume_storage[id].status = "error"
        /\ resume_storage[id].error = "Unsupported file format"
        /\ task[id].tried = <<>> /\ ~task[id].extracted

\* C12 (SanitySpec): a document is rejected as "This is not a resume"
\* exactly when its signal count is at most 1, or at most 2 with a raw text
\* shorter than 300 characters, the signals being: email, phone, skills,
\* education, experience, projects extracted from the text, and a section
\* keyword in the raw text; a document with no signal is rejected.
HasKeyword(id) == task[id].text.class = "content" /\ task[id].file.keyword
IsShort(id) == ~(task[id].text.class = "content" /\ task[id].file.long)
ExtractedFrom(id, field) ==
    LET found == FoundIn(task[id].file, task[id].text)
    IN  IF field = "skills"
        THEN found.skills.value # <<>> \/ found.additional_skills.value # <<>>
        ELSE found[field].value # InitialValue(field)
SignalCount(id) ==
    Cardinality({f \in SignalFields : ExtractedFrom(id, f)})
    + (IF HasKeyword(id) THEN 1 ELSE 0)
Rejected(id) ==
    /\ resume_storage[id].status = "error"
    /\ resume_storage[id].error = "This is not a resume"
C12_NotAResume ==
    \A id \in ResumeIds : Extracted(id) =>
        /\ Rejected(id) <=>
              (SignalCount(id) <= 1 \/ (IsShort(id) /\ SignalCount(id) <= 2))
        /\ SignalCount(id) = 0 => Rejected(id)
\* What the code does instead: the skills signal is counted on the skill
\* list extract_information returns, which holds the default skills when no
\* skill was extracted, so every document has it.
CountedSignals(id) ==
    SignalCount(id) + (IF ExtractedFrom(id, "skills") THEN 0 ELSE 1)
C12_SkillsSignalAlwaysCounted ==
    \A id \in ResumeIds : Extracted(id) =>
        /\ Rejected(id) <=>
              (CountedSignals(id) <= 1 \/ (IsShort(id) /\ CountedSignals(id) <= 2))
        /\ SignalCount(id) = 0 => Rejected(id)
\* A text of 300 characters or more in which an email address is the only
\* signal was accepted, and stored with the default skills.
C12_Witness ==
    \E id \in ResumeIds :
        /\ Extracted(id) /\ ~IsShort(id)
        /\ SignalCount(id) = 1 /\ ExtractedFrom(id, "email")
        /\ resume_storage[id].status = "completed"
        /\ resume_storage[id].skills = DefaultSkills

\* C13 (Spec): no project is ever made up.  The stored resume, the project
\* list passed to the sources, the sources' verified projects and the
\* verified / unverified project buckets hold only projects extracted from
\* the resume text; when none was extracted, all of them are empty.
ExtractedProjects(id) ==
    IF task[id].extracted
    THEN Range(FoundIn(task[id].file, task[id].text).projects.value)
    ELSE {}
C13_NoSyntheticProject ==
    \A id \in ResumeIds : id \in DOMAIN task /\ task[id].pc = "done" =>
        /\ Range(resume_storage[id].projects) \subseteq ExtractedProjects(id)
        /\ id \in DOMAIN calls =>
              Range(calls[id].projects) \subseteq ExtractedProjects(id)
        /\ id \in DOMAIN verification_storage =>
              LET v == verification_storage[id]
              IN  /\ Range(v.verified_projects) \subseteq ExtractedProjects(id)
                  /\ Range(v.unverified_projects) \subseteq ExtractedProjects(id)
                  /\ \A s \in Sources :
                        Range(v[s].verified_projects) \subseteq ExtractedProjects(id)
\* A resume in which no project was found was stored as completed and
\* verified: the sources were called with the empty project list and both
\* project buckets are empty.
C13_Witness ==
    \E id \in ResumeIds :
        /\ id \in DOMAIN task /\ task[id].pc = "done" /\ task[id].extracted
        /\ ExtractedProjects(id) = {}
        /\ resume_storage[id].status = "completed"
        /\ resume_storage[id].projects = <<>>
        /\ id \in DOMAIN calls /\ id \in DOMAIN verification_storage
        /\ \A s \in Sources : calls[id].outcome[s] = "ok"
        /\ calls[id].projects = <<>>
        /\ verification_storage[id].verified_projects = <<>>
        /\ verification_storage[id].unverified_projects = <<>>
        /\ verification_storage[id].verified_skills # <<>>

\* C14 (Spec): a resume from which no skill is extracted and which passes
\* the resume heuristic ends in a non-error state with an empty skill list,
\* and every skill in the verified / unverified skill buckets was extracted
\* from the text of that resume.
ExtractedSkills(id) ==
    LET found == FoundIn(task[id].file, task[id].text)
    IN  Range(Assigned(found, "skills", <<>>))
        \cup Range(Assigned(found, "additional_skills", <<>>))
C14_ZeroSkillsStayEmpty ==
    \A id \in ResumeIds : Extracted(id) =>
        /\ ExtractedSkills(id) = {} /\ ~Rejected(id) =>
              /\ resume_storage[id].status = "completed"
              /\ resume_storage[id].skills = <<>>
        /\ id \in DOMAIN verification_storage =>
              /\ Range(verification_storage[id].verified_skills) \subseteq ExtractedSkills(id)
              /\ Range(verification_storage[id].unverified_skills) \subseteq ExtractedSkills(id)
\* What the code does instead: such a resume ends in the completed state
\* with the default skills, and the buckets hold extracted or default skills.
C14_ZeroSkillsGetDefaults ==
    \A id \in ResumeIds : Extracted(id) =>
        /\ ExtractedSkills(id) = {} /\ ~Rejected(id) =>
              /\ resume_storage[id].status = "completed"
              /\ resume_storage[id].skills = DefaultSkills
        /\ id \in DOMAIN verification_storage =>
              LET known == ExtractedSkills(id) \cup Range(DefaultSkills)
              IN  /\ Range(verification_storage[id].verified_skills) \subseteq known
                  /\ Range(verification_storage[id].unverified_skills) \subseteq known
\* A resume without any extracted skill was stored with the three default
\* skills, and its verification reports the default skill Python as verified.
C14_Witness ==
    \E id \in ResumeIds :
        /\ Extracted(id) /\ ExtractedSkills(id) = {}
        /\ resume_storage[id].status = "completed"
        /\ resume_storage[id].skills = DefaultSkills
        /\ id \in DOMAIN verification_storage
        /\ In("Python", verification_storage[id].verified_skills)

\* C15 (TextSpec): in what extract_information returns, no two skills are
\* equal ignoring letter case (the skills taken from an achievements
\* section included), no two project names are equal ignoring letter case,
\* and every project name is longer than 3 characters.
DistinctIgnoringCase(s) == \A i, j \in 1..Len(s) : lower(s[i]) = lower(s[j]) => i = j
C15_NoCaseDuplicates ==
    \A id \in ResumeIds : Extracted(id) =>
        /\ DistinctIgnoringCase(task[id].parsed_data.skills)
        /\ DistinctIgnoringCase(task[id].parsed_data.projects)
        /\ \A i \in 1..Len(task[id].parsed_data.projects) :
              Len(task[id].parsed_data.projects[i]) > 3
\* What the code does instead: the project part holds, and the skills are
\* distinct ignoring case when no skill comes from an achievements section.
C15_DistinctUnlessMerged ==
    \A id \in ResumeIds : Extracted(id) =>
        /\ task[id].file.found.additional_skills.value = <<>> =>
              DistinctIgnoringCase(task[id].parsed_data.skills)
        /\ DistinctIgnoringCase(task[id].parsed_data.projects)
        /\ \A i \in 1..Len(task[id].parsed_data.projects) :
              Len(task[id].parsed_data.projects[i]) > 3
\* The skills section lists "time management" and the achievements section
\* mentions a deadline: the returned skills hold both "time management" and
\* "Time Management".
C15_Witness ==
    \E id \in ResumeIds :
        /\ Extracted(id)
        /\ task[id].file.content = ResumeText("time management, Python", "met every deadline", <<>>)
        /\ In("time management", task[id].parsed_data.skills)
        /\ In("Time Management", task[id].parsed_data.skills)

\* C16 (TextSpec): skill extraction keeps the order of first occurrence in
\* the text and takes no section-header token: the skills extracted from a
\* skills section are its items, each once, in the order they are written;
\* for "Skills: Python, React, C, JavaScript" they are exactly
\* Python, React, C, JavaScript.
RECURSIVE FirstOccurrences(_, _)
FirstOccurrences(items, kept) ==
    IF items = <<>> THEN kept
    ELSE FirstOccurrences(Tail(items),
            IF In(Head(items), kept) THEN kept ELSE Append(kept, Head(items)))
SectionItems(text) ==
    LET pieces == split(text.skills, SkillSeparators)
    IN  [i \in 1..Len(pieces) |-> strip_str(pieces[i])]
SkillsSectionOnly(id) ==
    /\ Extracted(id)
    /\ task[id].file.content.achievements = None
    /\ task[id].file.content.skills # ""
InKeywordOrder(skills) ==
    \A i, j \in 1..Len(skills) :
        i < j /\ In(skills[i], skill_keywords) /\ In(skills[j], skill_keywords) =>
            LET Is(a) == a = skills[i] \/ a = skills[j]
            IN  SelectSeq(skill_keywords, Is) = <<skills[i], skills[j]>>
SameText(a, b) ==
    /\ Extracted(a) /\ Extracted(b)
    /\ task[a].file.content = task[b].file.content
C17_Deterministic ==
    \A a, b \in Reruns : SameText(a, b) => task[a].parsed_data = task[b].parsed_data
\* What the code does instead: two runs on the same text agree on every
\* field but the order of the skills, and on that order too when no skill
\* comes from an achievements section.
C17_SameUpToSkillOrder ==
    \A a, b \in Reruns : SameText(a, b) =>
        /\ [task[a].parsed_data EXCEPT !.skills = <<>>] = [task[b].parsed_data EXCEPT !.skills = <<>>]
        /\ Range(task[a].parsed_data.skills) = Range(task[b].parsed_data.skills)
        /\ Len(task[a].parsed_data.skills) = Len(task[b].parsed_data.skills)
        /\ task[a].file.found.additional_skills.value = <<>> =>
              task[a].parsed_data.skills = task[b].parsed_data.skills
\* The same text ("Skills: Python" followed by an achievements section that
\* mentions a deadline) was parsed twice, into Python, Time Management and
\* into Time Management, Python.
C17_Witness ==
    \E a, b \in Reruns :
        /\ SameText(a, b)
        /\ task[a].file.content = ResumeText("Python", "met every deadline", <<>>)
        /\ task[a].parsed_data.skills = <<"Python", "Time Management">>
        /\ task[b].parsed_data.skills = <<"Time Management", "Python">>


\* C18: for each of the three sources and any input lists (repeated entries
\* and project names with surrounding whitespace included), the verified
\* skills are input skills and the verified projects are input project
\* names, each at most once.
NoRepeats(s) == \A i, j \in 1..Len(s) : s[i] = s[j] => i = j
SubsetOnce(verified, given) == Range(verified) \subseteq Range(given) /\ NoRepeats(verified)
C18_VerifiedAreSubsets ==
    returned.source # "none" =>
        /\ SubsetOnce(returned.result.verified_skills, returned.skills)
        /\ SubsetOnce(returned.result.verified_projects, returned.projects)
\* What does hold: every verified skill is an input skill, every verified
\* project is an input project name with its surrounding whitespace
\* removed, and GitHub lists no skill twice.
C18_VerifiedComeFromInputs ==
    returned.source # "none" =>
        /\ Range(returned.result.verified_skills) \subseteq Range(returned.skills)
        /\ Range(returned.result.verified_projects)
              \subseteq {strip_str(project) : project \in Range(returned.projects)}
        /\ returned.source = "github" => NoRepeats(returned.result.verified_skills)
\* Twitter was given the skill React twice and lists it twice; GitHub was
\* given the project " Questfi " and lists "Questfi".
C18_Witness ==
    \/ /\ returned.source = "twitter"
       /\ returned.skills = <<"React", "React">>
       /\ returned.result.verified_skills = <<"React", "React">>
    \/ /\ returned.source = "github"
       /\ returned.projects = <<" Questfi ">>
       /\ returned.result.verified_projects = <<"Questfi">>


\* C19: in every source snapshot produced without error, each claim in
\* verified_skills / verified_projects has a non-empty proof list and no
\* other claim has a proof entry; the GitHub proof of a project names every
\* matching repository (in repository order) and gives each with its match
\* type.
RECURSIVE MatchesOf(_, _)
MatchesOf(project_name, repos) ==
    IF repos = <<>> THEN <<>>
    ELSE MatchesOf(project_name, SubSeq(repos, 1, Len(repos) - 1))
         \o (IF match_type(project_name, repos[Len(repos)]) = "none" THEN <<>>
             ELSE <<repos[Len(repos)]>>)
RepoNames(repos) == [i \in 1..Len(repos) |-> strip_str(repos[i].name)]
RepoDetails(project_name, repos) ==
    [i \in 1..Len(repos) |->
        strip_str(repos[i].name) \o " (" \o match_type(project_name, repos[i]) \o ")"]
ProofCovers(proof, verified) ==
    /\ DOMAIN proof = Range(verified)
    /\ \A claim \in DOMAIN proof : proof[claim] # <<>>
IsExact(project_name, repo_name) ==
    \E variant \in get_name_variants(project_name) : variant \in get_name_variants(repo_name)
IsContained(project_name, repo_name) ==
    LET project_lower == strip_str(lower(project_name))
        repo_lower == strip_str(lower(repo_name))
    IN  \/ Contains(project_lower, repo_lower)
        \/ Contains(repo_lower, project_lower)
        \/ /\ Len(Words(project_name)) > 1
           /\ \A word \in Range(Words(lower(project_name))) : word \in Range(Words(lower(repo_name)))
        \/ normalize_name(project_name) = normalize_name(repo_name)
        \/ \E separator \in {"-", "_"} :
              \/ StartsWith(repo_lower, project_lower \o separator)
              \/ EndsWith(repo_lower, separator \o project_lower)
InDescription(project_name, repo) ==
    repo.description # "" /\ Contains(lower(project_name), lower(repo.description))
TypeByPrecedence(project_name, repo) ==
    IF strip_str(repo.name) = "" THEN "none"
    ELSE IF IsExact(project_name, strip_str(repo.name)) THEN "exact"
    ELSE IF IsContained(project_name, strip_str(repo.name)) THEN "contains"
    ELSE IF InDescription(project_name, repo) THEN "description"
    ELSE "none"
RECURSIVE DetailsByPrecedence(_, _)
DetailsByPrecedence(project_name, repos) ==
    IF repos = <<>> THEN <<>>
    ELSE LET repo == repos[Len(repos)]
             type == TypeByPrecedence(project_name, repo)
         IN  DetailsByPrecedence(project_name, SubSeq(repos, 1, Len(repos) - 1))
             \o (IF type = "none" THEN <<>>
                 ELSE <<strip_str(repo.name) \o " (" \o type \o ")">>)
GithubReturned == returned.source = "github" /\ ~returned.result.error
C20_MatchTypePrecedence ==
    GithubReturned =>
        /\ \A i \in 1..Len(returned.projects) :
              LET project_name == strip_str(returned.projects[i])
                  details == DetailsByPrecedence(project_name, returned.call.repos)
              IN  /\ In(project_name, returned.result.verified_projects) <=> details # <<>>
                  /\ details # <<>> =>
                        returned.result.proof.projects[project_name][2]
                           = "Match details: " \o JoinWith(details, ", ")
        /\ (In("Questfi", returned.projects) /\ returned.call.repos = TestRepos) =>
              /\ TypeByPrecedence("Questfi", TestRepos[1]) = "contains"
              /\ match_type("Questfi", TestRepos[1]) = "contains"
              /\ In("Questfi", returned.result.verified_projects)
        /\ (In("Data Roots", returned.projects) /\ returned.call.repos = TestRepos) =>
              In("Data Roots", returned.result.verified_projects)
        /\ (In("Profile Auditor", returned.projects) /\ returned.call.repos = TestRepos) =>
              In("Profile Auditor", returned.result.verified_projects)
\* GitHub was given Questfi and Profile Auditor against the repositories of
\* test_project_matching.py and verified both, Questfi by a contains match
\* with Questfi-Vietbuild and an exact match with questfi.
C20_Witness ==
    /\ GithubReturned
    /\ returned.call.repos = TestRepos
    /\ returned.projects = <<"Questfi", "Profile Auditor">>
    /\ returned.result.verified_projects = <<"Questfi", "Profile Auditor">>
    /\ returned.result.proof.projects["Questfi"][2]
         = "Match details: Questfi-Vietbuild (contains), questfi (exact)"
    /\ returned.result.proof.projects["Profile Auditor"][2] = "Match details: ProfileAuditor (exact)"


\* C23: upload_resume answers at once with status "processing" and the
\* task is still to run; on every path of process_resume the record
\* eventually leaves "processing" for "completed" or "error"; a reader
\* (get_resume) sees "processing" or the final record, the latter only
\* after process_resume has written it; and a record that is "completed"
\* or "error" keeps its status.
Settled(id) ==
    id \in DOMAIN resume_storage /\ resume_storage[id].status \in {"completed", "error"}
Pending(id) == id \in DOMAIN resume_storage /\ resume_storage[id].status = "processing"
AnsweredBy(op) == response'.op = op /\ response' # response
C30_TempFileRemoved ==
    \A id \in DOMAIN task : task[id].pc = "done" => id \notin DOMAIN temp_files
\* What the code keeps: a file that outlives process_resume belongs to an
\* upload rejected as "This is not a resume".
C30_LeftOnlyByRejection ==
    \A id \in DOMAIN task :
        task[id].pc = "done" /\ id \in DOMAIN temp_files =>
            resume_storage[id].status = "error" /\ resume_storage[id].error = "This is not a resume"
\* process_resume has ended with the rejection and the file is still there.
C30_Witness ==
    /\ "r1" \in DOMAIN task
    /\ task["r1"].pc = "done"
    /\ resume_storage["r1"].error = "This is not a resume"
    /\ "r1" \in DOMAIN temp_files


\* C28: whenever start_verification answers "completed", the verification
\* record stored for that resume has status "completed" and holds the four
\* buckets; whenever the stored record ends "error", the caller received
\* an error response.
Buckets == {"verified_skills", "verified_projects", "unverified_skills", "unverified_projects"}
LastVerified(id) ==
    /\ response.op = "start_verification"
    /\ response.resume_id = id
    /\ id \in DOMAIN verification_storage
C28_AnswerMatchesRecord ==
    \A id \in Submissions :
        LastVerified(id) =>
            /\ response.status = "completed" =>
                  /\ verification_storage[id].status = "completed"
                  /\ Buckets \subseteq DOMAIN verification_storage[id]
            /\ verification_storage[id].status = "error" => response.code >= 400
\* What the code keeps: after the answer "completed" the stored record is
\* "completed" with the four buckets or it is an error record, and no
\* "processing" record is left behind.
C28_CompletedOrSwallowed ==
    \A id \in Submissions :
        LastVerified(id) =>
            \/ /\ verification_storage[id].status = "completed"
               /\ Buckets \subseteq DOMAIN verification_storage[id]
               /\ response.status = "completed"
            \/ /\ verification_storage[id].status = "error"
               /\ response.status = "completed"
\* start_verification answered "completed" and the stored record is an
\* error record.
C28_Witness ==
    /\ response = Response("start_verification", "r1", 200, "completed")
    /\ "r1" \in DOMAIN verification_storage
    /\ verification_storage["r1"].status = "error"


\* C24: a request that arrives before the preceding stage completed is
\* rejected and changes nothing: start_verification on a resume that is
\* missing or not "completed" answers 404 / 400, calls no source and
\* writes no verification record; get_score on a verification that is
\* missing, "processing" or "error" computes and stores no score, and
\* answers 404 / 202 / 400 unless a score was stored before.
ResumeReady(id) == id \in DOMAIN resume_storage /\ resume_storage[id].status = "completed"
VerificationReady(id) ==
    id \in DOMAIN verification_storage /\ verification_storage[id].status = "completed"
C24_NotReadyChangesNothing ==
    /\ [][AnsweredBy("start_verification") /\ ~ResumeReady(response'.resume_id) =>
            /\ response'.code \in {404, 400}
            /\ UNCHANGED <<resume_storage, verification_storage, score_storage, calls>>]_vars
    /\ [][AnsweredBy("get_score") /\ ~VerificationReady(response'.resume_id) =>
            /\ UNCHANGED <<resume_storage, verification_storage, score_storage, gemini>>
            /\ response'.resume_id \notin DOMAIN score_storage => response'.code \in {404, 202, 400}]_vars
\* start_verification was asked for an upload that process_resume has not
\* finished yet: it answered 400 and there is no verification record.
C24_Witness ==
    /\ response = Response("start_verification", "r1", 400, "processing")
    /\ "r1" \in DOMAIN task /\ task["r1"].pc = "queued"
    /\ "r1" \notin DOMAIN verification_storage
    /\ "r1" \notin DOMAIN calls


\* C29: once get_score has stored a score for a resume id, every later
\* get_score for that id returns the stored score, which never changes,
\* whatever the verification record has become since (start_verification
\* run again with a different result, or ended in error); and a score is
\* stored only from a verification record whose status is "completed".
Scores(id) == IF id \in DOMAIN score_storage THEN {score_storage[id]} ELSE {}
C29_StoredScoreIsFinal ==
    /\ [][\A id \in Submissions :
            id \in DOMAIN score_storage =>
                /\ Scores(id)' = Scores(id)
                /\ AnsweredBy("get_score") /\ response'.resume_id = id =>
                      response'.code = 200 /\ response'.status = "cached"]_vars
    /\ [][\A id \in Submissions :
            id \notin DOMAIN score_storage /\ Scores(id)' # {} =>
                /\ VerificationReady(id)
                /\ response' = Response("get_score", id, 200, "computed")
                /\ score_storage'[id] =
                      calculate_score(id, verification_storage[id], gemini'[id])]_vars
\* get_score returned the stored score although start_verification has run
\* again since and the score of the present verification record would differ.
C29_Witness ==
    /\ response = Response("get_score", "r1", 200, "cached")
    /\ VerificationReady("r1")
    /\ score_storage["r1"] # calculate_score("r1", verification_storage["r1"], gemini["r1"])


\* C27: submissions do not interfere.  A step changes the records of at
\* most one submission and is an operation on that submission, leaving
\* every record under another identifier as it was; and in every
\* interleaving the resume, verification and score records of a submission
\* are the ones its own file, its own source answers and its own model
\* reply give: what process_resume computes from the file, what
\* process_verification computes from that resume record, what
\* calculate_score computes from such a verification record.
At(store, id) == IF id \in DOMAIN store THEN {store[id]} ELSE {}
Records(id) ==
    <<At(resume_storage, id), At(verification_storage, id), At(score_storage, id),
      At(temp_files, id), At(task, id), At(calls, id), At(gemini, id)>>
OwnVerifications(id) ==
    {process_verification(id, resume_storage[id], Request(None, None, None), env).record :
        env \in StageEnvironments}
AsAlone(id) ==
    /\ (id \in DOMAIN task /\ task[id].pc = "done") =>
          \E order \in SetOrders(FoundIn(task[id].file, task[id].text)) :
              resume_storage[id] =
                  process_resume(id, TRUE,
                                 parse_resume_with_text(lib, task[id].file, order),
                                 task[id].file, NoForm).record
    /\ VerificationReady(id) => verification_storage[id] \in OwnVerifications(id)
    /\ id \in DOMAIN score_storage =>
          \E v \in OwnVerifications(id) :
              score_storage[id] = calculate_score(id, v, gemini[id])
C27_NoInterference ==
    /\ [][\A a \in Submissions :
            Records(a)' # Records(a) =>
                /\ Handles(a)
                /\ \A b \in Submissions \ {a} : Records(b)' = Records(b)]_vars
    /\ [](\A id \in Submissions : AsAlone(id))
\* Both submissions went through the three stages, their steps interleaved,
\* and the sources answered differently for the two: each has its own
\* verification record and its own score.
C27_Witness ==
    /\ "r1" \in DOMAIN score_storage
    /\ VerificationReady("r1")
    /\ "r2" \in DOMAIN score_storage
    /\ VerificationReady("r2")
    /\ verification_storage["r1"].verified_skills # verification_storage["r2"].verified_skills


\* C26: get_user_repositories requests the pages 1, 2, 3, ... in order,
\* stops at the first page that is empty or shorter than the page size and
\* then returns the concatenation of the pages received; a 404 answer on
\* any page yields the mock dataset, which is not empty; and whatever HTTP
\* status or network failure a page meets, the call returns a list and
\* does not raise.
RECURSIVE Concatenation(_, _)
Concatenation(server, k) ==
    IF k = 0 THEN <<>>
    ELSE Concatenation(server, k - 1) \o PageRepos(k, Answer(server, k).n)
AllReceived(k) == \A p \in 1..k : Answer(feed.server, p).status = 200
LastRequested == task.requested[Len(task.requested)]
C26_PagesInOrder ==
    /\ \A i \in 1..Len(task.requested) : task.requested[i] = i
    /\ \A i \in 1..(Len(task.requested) - 1) :
          Answer(feed.server, i) = [status |-> 200, n |-> per_page]
    /\ task.pc = "returned" =>
          /\ ~returned.raised
          /\ task.requested # <<>> =>
                /\ Answer(feed.server, LastRequested) # [status |-> 200, n |-> per_page]
                /\ AllReceived(LastRequested) =>
                      /\ Answer(feed.server, LastRequested).n < per_page
                      /\ returned.value = Concatenation(feed.server, LastRequested)
                /\ Answer(feed.server, LastRequested).status = 404 =>
                      returned.value = get_mock_repositories /\ returned.value # <<>>
\* Two full pages and a shorter third one were requested and received, and
\* the call returned the 299 repositories in page order.
C26_Witness ==
    /\ task.pc = "returned"
    /\ task.requested = <<1, 2, 3>>
    /\ AllReceived(3)
    /\ Len(returned.value) = 299

\* ------------------------------------------- resume_parser: project search
\* The staged search of extract_projects on the characters of a text.
\*
\* Python's re on a text: a pattern is a tree of nodes, a match state is
\* the position reached (1-based, the next character to read) and the
\* bounds g of groups 1 to 3.  Run gives the states a backtracking matcher
\* reaches from one state, in the order in which it tries them; the first
\* one is the match.
CharsOf(s) == {CharAt(s, i) : i \in 1..Len(s)}
AZ == CharsOf(UpperCase)
az == CharsOf(LowerCase)
Letters == AZ \cup az
Numerals == CharsOf("0123456789")
OneOf(chars) == [neg |-> FALSE, chars |-> chars]
NoneOf(chars) == [neg |-> TRUE, chars |-> chars]
Member(c, class) == c # "" /\ (c \in class.chars) # class.neg

Lit(s) == [kind |-> "lit", s |-> s]
\* a literal under (?i), given in lower case
LitI(s) == [kind |-> "liti", s |-> s]
\* class{lo,hi}, greedy or lazy; hi < 0 stands for no upper limit
Rep(class, lo, hi, greedy) == [kind |-> "rep", class |-> class, lo |-> lo, hi |-> hi, greedy |-> greedy]
Cat(nodes) == [kind |-> "seq", nodes |-> nodes]
Alt(nodes) == [kind |-> "alt", nodes |-> nodes]
Group(k, node) == [kind |-> "group", k |-> k, node |-> node]
Look(node) == [kind |-> "look", node |-> node]
Opt(node) == Alt(<<node, Cat(<<>>)>>)
\* ^ and $ under re.MULTILINE, ^ and $ without it, \b
Bol == [kind |-> "bol"]
Eol == [kind |-> "eol"]
Bot == [kind |-> "bot"]
Eot == [kind |-> "eot"]
Wb == [kind |-> "wb"]
One(class) == Rep(class, 1, 1, TRUE)
\* \s, \s*, \s+
S == OneOf(Spaces)
S0 == Rep(S, 0, -1, TRUE)
S1 == Rep(S, 1, -1, TRUE)

\* The number of characters of the class from pos on, hi at most.
RunLength(class, text, pos, hi) ==
    LET last == IF hi < 0 THEN Len(text) ELSE IMin(Len(text), pos + hi - 1)
        room == IF last < pos THEN 0 ELSE last - pos + 1
    IN  CHOOSE n \in 0..room :
            /\ \A j \in pos..(pos + n - 1) : Member(CharAt(text, j), class)
            /\ (n = room \/ ~Member(CharAt(text, pos + n), class))

ReadsAt(text, pos, s) == pos + Len(s) - 1 <= Len(text) /\ SubSeq(text, pos, pos + Len(s) - 1) = s

RECURSIVE Run(_, _, _)
RECURSIVE RunAll(_, _, _)
RECURSIVE RunSeq(_, _, _)
RECURSIVE RunAlt(_, _, _)
Run(node, text, st) ==
    CASE node.kind = "lit" ->
            IF ReadsAt(text, st.pos, node.s) THEN <<[st EXCEPT !.pos = @ + Len(node.s)]>> ELSE <<>>
      [] node.kind = "liti" ->
            IF st.pos + Len(node.s) - 1 <= Len(text)
               /\ lower(SubSeq(text, st.pos, st.pos + Len(node.s) - 1)) = node.s
            THEN <<[st EXCEPT !.pos = @ + Len(node.s)]>> ELSE <<>>
      [] node.kind = "rep" ->
            LET most == RunLength(node.class, text, st.pos, node.hi)
            IN  IF most < node.lo THEN <<>>
                ELSE [k \in 1..(most - node.lo + 1) |->
                        [st EXCEPT !.pos = @ + (IF node.greedy THEN most - k + 1
                                                ELSE node.lo + k - 1)]]
      [] node.kind = "seq" -> RunSeq(node.nodes, text, <<st>>)
      [] node.kind = "alt" -> RunAlt(node.nodes, text, st)
      [] node.kind = "group" ->
            LET inner == Run(node.node, text, st)
            IN  [k \in 1..Len(inner) |->
                    [inner[k] EXCEPT !.g[2 * node.k - 1] = st.pos,
                                     !.g[2 * node.k] = inner[k].pos]]
      [] node.kind = "look" -> IF Run(node.node, text, st) # <<>> THEN <<st>> ELSE <<>>
      [] node.kind = "bol" ->
            IF st.pos = 1 \/ CharAt(text, st.pos - 1) = "\n" THEN <<st>> ELSE <<>>
      [] node.kind = "eol" ->
            IF st.pos = Len(text) + 1 \/ CharAt(text, st.pos) = "\n" THEN <<st>> ELSE <<>>
      [] node.kind = "bot" -> IF st.pos = 1 THEN <<st>> ELSE <<>>
      [] node.kind = "eot" ->
            IF st.pos = Len(text) + 1 \/ (st.pos = Len(text) /\ CharAt(text, st.pos) = "\n")
            THEN <<st>> ELSE <<>>
      [] node.kind = "wb" -> IF Boundary(text, st.pos) THEN <<st>> ELSE <<>>
RunAll(node, text, states) ==
    IF states = <<>> THEN <<>>
    ELSE IF Len(states) = 1 THEN Run(node, text, states[1])
    ELSE LET half == Len(states) \div 2
         IN  RunAll(node, text, SubSeq(states, 1, half))
             \o RunAll(node, text, SubSeq(states, half + 1, Len(states)))
RunSeq(nodes, text, states) ==
    IF nodes = <<>> \/ states = <<>> THEN states
    ELSE RunSeq(Tail(nodes), text, RunAll(Head(nodes), text, states))
RunAlt(nodes, text, st) ==
    IF nodes = <<>> THEN <<>>
    ELSE Run(Head(nodes), text, st) \o RunAlt(Tail(nodes), text, st)

\* A match: where it starts, where it ends, its groups.
NoGroups == <<0, 0, 0, 0, 0, 0>>
Attempt(pattern, text, i) == Run(pattern, text, [pos |-> i, g |-> NoGroups])
MatchAt(pattern, text, i) ==
    LET m == Attempt(pattern, text, i)[1]
    IN  [start |-> i, end |-> m.pos, g |-> m.g]
group(text, m, k) ==
    IF m.g[2 * k - 1] = 0 THEN "" ELSE SubSeq(text, m.g[2 * k - 1], m.g[2 * k] - 1)
\* re.match(pattern, text)
Matches(pattern, text) == Attempt(pattern, text, 1) # <<>>
\* re.findall(pattern, text): the search resumes where the last match
\* ended, one character further after an empty match.
RECURSIVE Scan(_, _, _, _)
Scan(pattern, text, hits, pos) ==
    LET later == {i \in hits : i >= pos}
    IN  IF later = {} THEN <<>>
        ELSE LET i == CHOOSE a \in later : \A b \in later : a <= b
                 m == MatchAt(pattern, text, i)
             IN  <<m>> \o Scan(pattern, text, hits, IF m.end = i THEN i + 1 ELSE m.end)
findall(pattern, text) ==
    Scan(pattern, text, {i \in 1..(Len(text) + 1) : Attempt(pattern, text, i) # <<>>}, 1)
\* re.search(pattern, text)
Search(pattern, text) == \E i \in 1..(Len(text) + 1) : Attempt(pattern, text, i) # <<>>

\* em_dash_patterns: the name, a separator, the description up to the end
\* of the line.
NameClass == OneOf(Letters \cup Numerals \cup Spaces \cup {",", "-"})
DashPattern(separator) ==
    Cat(<<Alt(<<Bol, Lit("\n")>>), S0,
          Group(1, Cat(<<One(OneOf(AZ)), Rep(NameClass, 2, 50, TRUE)>>))>>
        \o separator
        \o <<S0, Group(2, Rep(NoneOf({"[", "\n"}), 1, -1, FALSE)),
             Opt(Cat(<<S0, Lit("["), Rep(NoneOf({"\n"}), 0, -1, FALSE), Lit("]")>>)),
             Opt(Lit(".")), S0, Look(Alt(<<Lit("\n"), Eol>>))>>)
em_dash_patterns ==
    <<DashPattern(<<S0, Lit(SourceEmDash)>>),
      DashPattern(<<S0, One(OneOf({"-", Circumflex, Euro, LeftQuote}))>>),
      DashPattern(<<Rep(S, 3, -1, TRUE)>>)>>

\* str.upper(), str.find() + 1 (0 when absent), any(k in s for k in ...).
RECURSIVE upper(_)
upper(s) ==
    IF Len(s) <= 1 THEN UpperChar(s)
    ELSE upper(SubSeq(s, 1, Len(s) \div 2)) \o upper(SubSeq(s, Len(s) \div 2 + 1, Len(s)))
Find(sub, s) ==
    LET hits == {i \in 1..(Len(s) - Len(sub) + 1) : SubSeq(s, i, i + Len(sub) - 1) = sub}
    IN  IF hits = {} THEN 0 ELSE CHOOSE a \in hits : \A b \in hits : a <= b
AnyIn(keywords, s) == \E k \in keywords : Contains(k, s)
AnyStarts(s, prefixes) == \E p \in prefixes : StartsWith(s, p)
Project(name, description) == [name |-> name, description |-> description]
Names(projects) == [i \in 1..Len(projects) |-> projects[i].name]
existing_names(projects) == {lower(projects[i].name) : i \in 1..Len(projects)}

\* The keyword lists of extract_projects.
header_words ==
    {"PROJECTS", "EXPERIENCE", "EDUCATION", "SKILLS", "ACHIEVEMENTS", "INTERNSHIP", "AWARDS"}
achievement_keywords ==
    {"prize", "award", "hackathon", "competition", "winner", "achievement", "certificate",
     "honor", "built a blockchain", "engaged in a national", "demonstrating problem-solving",
     "3rd prize", "30th position", "completed a 21", "algohour", "regional hackathon"}
social_keywords ==
    {"twitter", "gmail", "linkedin", "github", "email", "phone", ".com", "@", "www.",
     "http", "https"}
experience_keywords ==
    {"intern", "internship", "remote", "present", "hackquest", "offscript", "advocate",
     "building and managing", "promoting web3"}
context_keywords == {"achievements", "extra-curricular", "hackathon", "competition", "prize"}
non_project_words ==
    {"achievements", "awards", "honors", "experience", "education", "skills",
     "certifications", "contact", "summary", "languages", "interests"}
project_keywords ==
    {"platform", "app", "website", "system", "tool", "network", "blockchain", "data",
     "bounty", "verification", "auditor", "sharing", "monetization"}
small_words == {"and", "or", "the", "of", "in", "at", "on", "for"}

\* "Skip if this appears to be from achievements section": the 200
\* characters before the first occurrence of the name hold a marker.
InAchievementsContext(text, project_name) ==
    LET match_pos == Find(project_name, text)
    IN  /\ match_pos > 1
        /\ AnyIn(context_keywords,
                 lower(SubSeq(text, IF match_pos > 200 THEN match_pos - 200 ELSE 1,
                              match_pos - 1)))
Unwanted(combined_text) ==
    \/ AnyIn(achievement_keywords, combined_text)
    \/ AnyIn(social_keywords, combined_text)
    \/ AnyIn(experience_keywords, combined_text)

\* extract_projects, lines 591-653: the three dash patterns on the whole
\* text, whether or not the text has a Projects section.
DashMatches(text) ==
    LET found(k) ==
            LET ms == findall(em_dash_patterns[k], text)
            IN  [i \in 1..Len(ms) |->
                    Project(strip_str(group(text, ms[i], 1)), strip_str(group(text, ms[i], 2)))]
    IN  found(1) \o found(2) \o found(3)
LooksLikeProject(project_name, combined_text) ==
    /\ Len(project_name) >= 3 /\ Len(project_name) <= 60
    /\ CharAt(project_name, 1) \in AZ
    /\ ~AnyIn(non_project_words, lower(project_name))
    /\ \/ AnyIn(project_keywords, combined_text)
       \/ /\ Len(Words(project_name)) <= 4
          /\ ~AnyIn(small_words, lower(project_name))
IsDashProject(text, match) ==
    LET accept(combined_text) ==
            /\ ~AnyIn(header_words, upper(match.name))
            /\ ~Unwanted(combined_text)
            /\ ~InAchievementsContext(text, match.name)
            /\ LooksLikeProject(match.name, combined_text)
    IN  accept(lower(match.name \o " " \o match.description))
RECURSIVE Keep(_, _, _)
Keep(matches, text, projects) ==
    IF matches = <<>> THEN projects
    ELSE Keep(Tail(matches), text,
              IF IsDashProject(text, Head(matches)) THEN Append(projects, Head(matches))
              ELSE projects)
WholeTextDashes(text) == Keep(DashMatches(text), text, <<>>)

\* project_section_patterns[0]: from the word project(s) and a colon or a
\* line break to the next heading of the list, or to the end of the text.
Word(w) == LitI(w)
Plural(w) == Cat(<<LitI(w), Opt(LitI("s"))>>)
section_end_headings ==
    <<Cat(<<Plural("achievement"), S0, Lit("&"), S0, Word("extra")>>),
      Plural("achievement"), Plural("award"), Plural("skill"), Word("experience"),
      Word("education"), Cat(<<Word("work"), S1, Word("experience")>>), Word("employment"),
      Plural("certification"), Plural("reference"), Word("contact"), Word("summary"),
      Word("objective"), Plural("language"), Plural("interest"), Plural("hobbie"),
      Word("extracurricular"), Word("activities"), Word("volunteer"), Word("leadership"),
      Cat(<<Word("social"), S1, Plural("handle")>>)>>
ColonOrBreak == One(OneOf({":", "\n"}))
project_section_pattern ==
    Cat(<<Plural("project"), S0, ColonOrBreak, S0,
          Group(1, Rep(NoneOf({}), 0, -1, FALSE)),
          Look(Alt(<<Cat(<<Lit("\n"), S0, Alt(section_end_headings), S0, ColonOrBreak>>),
                     Eot>>))>>)
\* project_matches, each stripped.
ProjectSections(text) ==
    LET ms == findall(project_section_pattern, text)
    IN  [i \in 1..Len(ms) |-> strip_str(group(text, ms[i], 1))]

\* Lines 669-722: the dash patterns on the text of the section.
IsSectionProject(project_text, match) ==
    LET accept(combined_text) ==
            /\ ~Unwanted(combined_text)
            /\ ~InAchievementsContext(project_text, match.name)
            /\ match.name # "" /\ Len(match.name) >= 3
    IN  accept(lower(match.name \o " " \o match.description))
RECURSIVE KeepNew(_, _, _)
KeepNew(matches, project_text, projects) ==
    IF matches = <<>> THEN projects
    ELSE LET match == [Head(matches) EXCEPT !.name = strip_str(RemoveBrackets(@))]
         IN  KeepNew(Tail(matches), project_text,
                     IF /\ IsSectionProject(project_text, match)
                        /\ lower(match.name) \notin existing_names(projects)
                     THEN Append(projects, match) ELSE projects)
SectionDashes(project_text, projects) == KeepNew(DashMatches(project_text), project_text, projects)

\* parse_project_section: the line-oriented parser.  st.current is the
\* project being collected (at most one), st.projects the finished ones.
indicator_words ==
    {"remote", "on-site", "hybrid", "freelance", "contract", "full-time", "part-time"}
section_terms ==
    {"achievements", "achievement", "extra", "extracurricular", "activities", "awards",
     "honors", "experience", "education", "skills", "certifications"}
header_verbs == {"developed", "created", "built", "implemented", "designed", "used", "worked"}
bullet_verbs ==
    header_verbs \cup
    {"integrated", "deployed", "received", "awarded", "achieved", "won", "earned",
     "certified", "completed", "graduated", "participated", "attended", "volunteered"}
standalone_verbs ==
    header_verbs \cup
    {"integrated", "deployed", "received", "awarded", "achieved", "won", "earned",
     "certified", "graduated", "completed", "participated", "volunteered", "organized",
     "led", "managed", "coordinated"}
title_keywords ==
    {"app", "website", "system", "platform", "tool", "dashboard", "api", "service",
     "portal", "application", "project", "software", "game", "simulator"}
bullet_exclusions ==
    {"award", "achievement", "certificate", "certification", "degree", "scholarship",
     "honor", "recognition", "winner", "prize", "distinction", "gpa", "cgpa", "grade",
     "score", "rank", "experience", "extra", "extracurricular", "activities"}
standalone_exclusions ==
    {"award", "achievement", "certificate", "certification", "degree", "scholarship",
     "honor", "recognition", "winner", "prize", "distinction", "club", "society", "team",
     "captain", "president", "member", "volunteer", "community", "event", "competition",
     "contest", "tournament", "league", "association", "achievements", "extra",
     "extracurricular", "activities", "experience", "education", "skills"}
standalone_headers ==
    {"achievements", "achievements & extra", "extracurricular", "activities", "experience",
     "education", "skills", "awards", "honors"}
months ==
    <<"january", "february", "march", "april", "may", "june", "july", "august",
      "september", "october", "november", "december", "jan", "feb", "mar", "apr", "may",
      "jun", "jul", "aug", "sep", "oct", "nov", "dec">>
\* \b(?:january|...|dec)\s+\d{4}\b
dated_pattern ==
    Cat(<<Wb, Alt([i \in 1..Len(months) |-> Lit(months[i])]), S1,
          Rep(OneOf(Numerals), 4, 4, TRUE), Wb>>)
Dated(s) == Search(dated_pattern, s)

Bracketed == Cat(<<S0, Lit("["), Rep(NoneOf({"\n"}), 0, -1, FALSE), Lit("]")>>)
Description == Group(2, Rep(NoneOf({"[", "\n"}), 1, -1, FALSE))
\* Pattern 0: ^([^<em-dash>\n]+?)\s*<em-dash>\s*([^[\n]+?)(?:\s*\[.*?\])?\.?\s*$
em_dash_line ==
    Cat(<<Bot, Group(1, Rep(NoneOf({Circumflex, Euro, RightQuote, "\n"}), 1, -1, FALSE)),
          S0, Lit(SourceEmDash), S0, Description, Opt(Bracketed), Opt(Lit(".")), S0, Eot>>)
\* Pattern 1: ^([^:<bullet>\-*\n]+?)[:\-]\s*(.*?)$
HeaderName ==
    Group(1, Rep(NoneOf({":", Circumflex, Euro, Cent, "-", "*", "\n"}), 1, -1, FALSE))
header_line ==
    Cat(<<Bot, HeaderName, One(OneOf({":", "-"})), S0,
          Group(2, Rep(NoneOf({"\n"}), 0, -1, FALSE)), Eot>>)
\* Pattern 2: ^(?:\d+\.|<bullet>|\*|\-)\s*([^:<bullet>\-*\n]+?)(?:[:\-]\s*(.*?))?$
bullet_line ==
    Cat(<<Bot,
          Alt(<<Cat(<<Rep(OneOf(Numerals), 1, -1, TRUE), Lit(".")>>), Lit(SourceBullet),
                Lit("*"), Lit("-")>>),
          S0, HeaderName,
          Opt(Cat(<<One(OneOf({":", "-"})), S0, Group(2, Rep(NoneOf({"\n"}), 0, -1, FALSE))>>)),
          Eot>>)

Cleaned(m, text, k) == strip_str(RemoveBrackets(strip_str(group(text, m, k))))
ParseLine(line, st) ==
    LET start(project) ==
            [projects |-> st.projects \o st.current, current |-> <<project>>]
        first(pattern) == MatchAt(pattern, line, 1)
        name(pattern) == Cleaned(first(pattern), line, 1)
        desc(pattern) == strip_str(group(line, first(pattern), 2))
        is_em_dash(project_name) ==
            /\ Len(project_name) >= 3 /\ Len(project_name) <= 60
            /\ CharAt(project_name, 1) \in AZ
            /\ ~AnyIn(section_terms, lower(project_name))
        is_header(project_name) ==
            /\ Len(project_name) >= 3 /\ Len(project_name) <= 60
            /\ ~AnyStarts(lower(project_name), header_verbs)
            /\ CharAt(project_name, 1) \in AZ
            /\ ~AnyIn(section_terms, lower(project_name))
            /\ ~Dated(lower(project_name))
        is_bullet(potential_name) ==
            /\ Len(potential_name) <= 60
            /\ ~AnyStarts(lower(potential_name), bullet_verbs)
            /\ CharAt(potential_name, 1) \in AZ
            /\ AnyIn(title_keywords, lower(potential_name))
            /\ ~AnyIn(bullet_exclusions, lower(potential_name))
            /\ ~Dated(lower(potential_name))
        is_standalone(clean_line) ==
            /\ Len(clean_line) <= 60 /\ clean_line # ""
            /\ CharAt(clean_line, 1) \in AZ
            /\ ~AnyStarts(lower(clean_line), standalone_verbs)
            /\ \/ AnyIn(title_keywords, lower(clean_line))
               \/ /\ Len(Words(clean_line)) <= 5
                  /\ ~AnyIn(standalone_exclusions, lower(clean_line))
            /\ ~Dated(lower(clean_line))
            /\ strip_str(lower(clean_line)) \notin standalone_headers
        desc_text ==
            IF StartsWith(line, SourceBullet) \/ StartsWith(line, "-") \/ StartsWith(line, "*")
            THEN strip_str(Tail1(line)) ELSE line
    IN  IF line = "" \/ lower(line) \in indicator_words THEN st
        ELSE IF Matches(em_dash_line, line) /\ is_em_dash(name(em_dash_line))
        THEN start(Project(name(em_dash_line), desc(em_dash_line)))
        ELSE IF Matches(header_line, line) /\ is_header(name(header_line))
        THEN start(Project(name(header_line), desc(header_line)))
        ELSE IF Matches(bullet_line, line) /\ is_bullet(name(bullet_line))
        THEN start(Project(name(bullet_line), desc(bullet_line)))
        ELSE IF is_standalone(strip_str(RemoveBrackets(line)))
        THEN start(Project(strip_str(RemoveBrackets(line)), ""))
        ELSE IF st.current # <<>>
        THEN [st EXCEPT !.current[1].description =
                            IF @ # "" THEN @ \o " " \o desc_text ELSE desc_text]
        ELSE st
RECURSIVE ParseLines(_, _)
ParseLines(lines, st) ==
    IF lines = <<>> THEN st.projects \o st.current
    ELSE ParseLines(Tail(lines), ParseLine(strip_str(Head(lines)), st))
\* str.split('\n')
Lines(text) ==
    LET breaks == {i \in 1..Len(text) : CharAt(text, i) = "\n"}
        nth(k) == CHOOSE i \in breaks : Cardinality({j \in breaks : j <= i}) = k
        from(k) == IF k = 1 THEN 1 ELSE nth(k - 1) + 1
        to(k) == IF k = Cardinality(breaks) + 1 THEN Len(text) ELSE nth(k) - 1
    IN  [k \in 1..(Cardinality(breaks) + 1) |-> SubSeq(text, from(k), to(k))]
parse_project_section(project_text) ==
    ParseLines(Lines(project_text), [projects |-> <<>>, current |-> <<>>])

\* Lines 725-740: what the line parser found, except names already held and
\* unwanted content.
RECURSIVE KeepParsed(_, _)
KeepParsed(parsed_projects, projects) ==
    IF parsed_projects = <<>> THEN projects
    ELSE LET proj == Head(parsed_projects)
         IN  KeepParsed(Tail(parsed_projects),
                        IF /\ lower(proj.name) \notin existing_names(projects)
                           /\ ~Unwanted(lower(proj.name \o " " \o proj.description))
                        THEN Append(projects, proj) ELSE projects)
SectionLines(project_text, projects) ==
    KeepParsed(parse_project_section(project_text), projects)

\* Lines 742-806: a line of the section with a project keyword and no dash
\* is cut after one to four words, at the cut with the best score.
RECURSIVE JoinWords(_)
JoinWords(words) ==
    IF words = <<>> THEN ""
    ELSE IF Len(words) = 1 THEN words[1]
    ELSE JoinWords(Front(words)) \o " " \o words[Len(words)]
score_words ==
    {"decentralized", "platform", "app", "application", "system", "tool", "verification",
     "generating", "blockchain", "network", "bounty"}
SplitAt(words, split_point) ==
    Project(JoinWords(SubSeq(words, 1, split_point)),
            JoinWords(SubSeq(words, split_point + 1, Len(words))))
Score(words, split_point) ==
    LET potential_name == SubSeq(words, 1, split_point)
        desc_words == {lower(words[i]) : i \in (split_point + 1)..Len(words)}
        single == lower(potential_name[1])
    IN  (IF \A i \in 1..split_point : CharAt(potential_name[i], 1) \in AZ THEN 2 ELSE 0)
        + (IF score_words \cap desc_words # {} THEN 1 ELSE 0)
        - (IF split_point = 1 /\ single \notin {"questfi", "auditor", "platform"}
           THEN 1 ELSE 0)
        + (IF split_point = 2 THEN 1
           ELSE IF split_point = 1 /\ single = "questfi" THEN 2 ELSE 0)
BestSplit(words) ==
    LET fits == {p \in 1..(IMin(5, Len(words)) - 1) :
                    /\ Score(words, p) > 0
                    /\ Len(SplitAt(words, p).name) >= 3
                    /\ Len(SplitAt(words, p).name) <= 30}
        best == {p \in fits : \A q \in fits : Score(words, q) <= Score(words, p)}
    IN  IF fits = {} THEN <<>>
        ELSE <<SplitAt(words, CHOOSE p \in best : \A q \in best : p <= q)>>
SplitLine(line, projects) ==
    LET clean_line == strip_str(RemoveBrackets(line))
        best_split == BestSplit(Words(clean_line))
    IN  IF /\ line # ""
           /\ AnyIn(project_keywords, lower(clean_line))
           /\ ~Contains(SourceEmDash, clean_line) /\ ~Contains("-", clean_line)
           /\ Len(Words(clean_line)) >= 3
           /\ best_split # <<>>
           /\ CharAt(best_split[1].name, 1) \in AZ
           /\ AnyIn(project_keywords, lower(best_split[1].description))
           /\ lower(best_split[1].name) \notin existing_names(projects)
        THEN Append(projects, best_split[1]) ELSE projects
RECURSIVE SplitLines(_, _)
SplitLines(section_lines, projects) ==
    IF section_lines = <<>> THEN projects
    ELSE SplitLines(Tail(section_lines), SplitLine(strip_str(Head(section_lines)), projects))
SectionSplit(project_text, projects) == SplitLines(Lines(project_text), projects)

\* extract_projects_from_full_text: line by line, outside the sections
\* it knows as non-project sections.
full_text_headers ==
    {"skills", "experience", "education", "work experience", "employment", "achievements",
     "awards", "certifications", "references", "contact", "summary", "objective",
     "languages", "interests", "hobbies", "activities", "volunteer", "extracurricular",
     "leadership", "organizations"}
full_text_terms ==
    {"achievements", "extra", "extracurricular", "activities", "experience", "education",
     "skills", "awards", "honors"}
full_text_verbs ==
    {"developed", "created", "built", "implemented", "designed", "used", "worked",
     "responsible", "received", "awarded", "achieved", "won", "earned", "certified",
     "the ", "a ", "an "}
AnyOf(words) == Alt([i \in 1..Len(words) |-> LitI(words[i])])
NameUnder(class, lo, hi, greedy) == Group(1, Cat(<<One(OneOf(Letters)), Rep(class, lo, hi, greedy)>>))
\* ^([A-Z][A-Za-z0-9\s,-]{2,50})\s*<em-dash>\s*([^[\n]+?)(?:\s*\[.*?\])?\.?\s*$
full_text_em_dash ==
    Cat(<<Bot, Group(1, Cat(<<One(OneOf(AZ)), Rep(NameClass, 2, 50, TRUE)>>)), S0,
          Lit(SourceEmDash), S0, Description, Opt(Bracketed), Opt(Lit(".")), S0, Eot>>)
\* project_patterns[1..3], all under (?i)
technology_words ==
    <<"react", "node", "python", "javascript", "java", "angular", "vue", "django", "flask",
      "spring", "express", "mongodb", "sql", "aws", "docker", "kubernetes", "api",
      "framework", "library", "technology", "tech", "stack">>
project_patterns ==
    <<Cat(<<Bot, NameUnder(NameClass, 2, 50, TRUE), S0, Lit("("),
            Rep(NoneOf({")"}), 1, -1, TRUE), AnyOf(technology_words),
            Rep(NoneOf({")"}), 0, -1, TRUE), Lit(")"), Alt(<<One(S), Eot>>)>>),
      Cat(<<Alt(<<Bot, Lit("\n")>>), NameUnder(NameClass, 2, 60, FALSE), S0,
            AnyOf(<<"project", "app", "application">>), Alt(<<One(S), Eot, Lit(".")>>)>>),
      Cat(<<AnyOf(<<"developed", "created", "built", "implemented", "designed">>), S1,
            Opt(Alt(<<Cat(<<LitI("a"), S1>>), Cat(<<LitI("an"), S1>>),
                      Cat(<<LitI("the"), S1>>)>>)),
            NameUnder(OneOf(NameClass.chars \cup {"(", ")"}), 2, 50, FALSE), S1,
            AnyOf(<<"project", "application", "app", "website", "system", "platform">>),
            One(OneOf(Spaces \cup {".", ","}))>>)>>
\* .*\(\d{3}\).*\d{4} and ^[A-Z][a-z]+\s+[A-Z][a-z]+$
phone_line ==
    Cat(<<Rep(NoneOf({"\n"}), 0, -1, TRUE), Lit("("), Rep(OneOf(Numerals), 3, 3, TRUE),
          Lit(")"), Rep(NoneOf({"\n"}), 0, -1, TRUE), Rep(OneOf(Numerals), 4, 4, TRUE)>>)
person_line ==
    Cat(<<Bot, One(OneOf(AZ)), Rep(OneOf(az), 1, -1, TRUE), S1, One(OneOf(AZ)),
          Rep(OneOf(az), 1, -1, TRUE), Eot>>)

RECURSIVE AddNames(_, _, _)
AddNames(names, projects, verbs) ==
    IF names = <<>> THEN projects
    ELSE LET project_name == strip_str(RemoveBrackets(strip_str(Head(names))))
         IN  AddNames(Tail(names),
                IF /\ Len(project_name) >= 3 /\ Len(project_name) <= 80
                   /\ ~AnyStarts(lower(project_name), verbs)
                   /\ CharAt(project_name, 1) \in AZ
                   /\ ~AnyIn(full_text_terms, lower(project_name))
                   /\ ~Dated(lower(project_name))
                   /\ lower(project_name) \notin existing_names(projects)
                THEN Append(projects, Project(project_name, "")) ELSE projects,
                verbs)
FullTextPatterns(line, projects) ==
    LET found(k) ==
            LET ms == findall(project_patterns[k], line)
            IN  [i \in 1..Len(ms) |-> group(line, ms[i], 1)]
        m == MatchAt(full_text_em_dash, line, 1)
        dashed ==
            IF ~Matches(full_text_em_dash, line) THEN projects
            ELSE LET with_name == AddNames(<<group(line, m, 1)>>, projects, {})
                 IN  IF with_name = projects THEN projects
                     ELSE [with_name EXCEPT ![Len(with_name)].description =
                                                strip_str(group(line, m, 2))]
    IN  AddNames(found(1) \o found(2) \o found(3), dashed, full_text_verbs)
FullTextLine(line, st) ==
    LET line_lower == RStrip(LStrip(lower(line), {":"}, TRUE), {":"}, TRUE)
    IN  IF line = "" THEN st
        ELSE IF line_lower \in full_text_headers
        THEN [st EXCEPT !.in_projects_section = FALSE, !.current_section = line_lower]
        ELSE IF StartsWith(line_lower, "project")
        THEN [st EXCEPT !.in_projects_section = TRUE, !.current_section = "projects"]
        ELSE IF ~st.in_projects_section /\ st.current_section \in full_text_headers THEN st
        ELSE IF Contains("@", line) \/ Matches(phone_line, line) THEN st
        ELSE IF Matches(person_line, line) THEN st
        ELSE [st EXCEPT !.projects = FullTextPatterns(line, @)]
RECURSIVE FullTextLines(_, _)
FullTextLines(lines, st) ==
    IF lines = <<>> THEN st.projects
    ELSE FullTextLines(Tail(lines), FullTextLine(strip_str(Head(lines)), st))
extract_projects_from_full_text(text) ==
    FullTextLines(Lines(text),
                  [projects |-> <<>>, in_projects_section |-> FALSE, current_section |-> ""])

\* Lines 815-873: the lines between a line PROJECT(S) and the next heading
\* that hold a project keyword, cut after one to three words.
projects_heading == Cat(<<Bot, S0, Plural("project"), S0, Eot>>)
leaving_heading ==
    Cat(<<Bot, S0,
          Alt(<<Plural("achievement"), Word("experience"), Word("education"), Word("skills"),
                Word("internship"), Cat(<<Word("social"), S1, Plural("handle")>>),
                Plural("language")>>), S0>>)
RECURSIVE ProjectLines(_, _, _)
ProjectLines(lines, in_projects_section, project_lines) ==
    IF lines = <<>> THEN project_lines
    ELSE LET line == strip_str(Head(lines))
         IN  IF line = "" THEN ProjectLines(Tail(lines), in_projects_section, project_lines)
             ELSE IF Matches(projects_heading, line)
             THEN ProjectLines(Tail(lines), TRUE, project_lines)
             ELSE IF in_projects_section /\ Matches(leaving_heading, line) THEN project_lines
             ELSE ProjectLines(Tail(lines), in_projects_section,
                               IF in_projects_section /\ AnyIn(project_keywords, lower(line))
                               THEN Append(project_lines, line) ELSE project_lines)
fallback_exclusions ==
    {"prize", "award", "hackathon", "competition", "twitter", "gmail", "linkedin", "github",
     "intern", "experience"}
CutLine(line, projects) ==
    LET words == Words(strip_str(RemoveBrackets(line)))
        fits == {p \in 1..(IMin(4, Len(words)) - 1) :
                    LET cut == SplitAt(words, p)
                    IN  /\ Len(cut.name) >= 3 /\ Len(cut.name) <= 30
                        /\ CharAt(cut.name, 1) \in AZ
                        /\ AnyIn(project_keywords, lower(cut.description))
                        /\ ~AnyIn(fallback_exclusions, lower(cut.name))
                        /\ lower(cut.name) \notin existing_names(projects)}
    IN  IF Len(words) >= 3 /\ fits # {}
        THEN Append(projects, SplitAt(words, CHOOSE p \in fits : \A q \in fits : p <= q))
        ELSE projects
RECURSIVE CutLines(_, _)
CutLines(project_lines, projects) ==
    IF project_lines = <<>> THEN projects
    ELSE CutLines(Tail(project_lines), CutLine(Head(project_lines), projects))
PdfFallback(text) == CutLines(ProjectLines(Lines(text), FALSE, <<>>), <<>>)

\* "Clean up and deduplicate projects", with the descriptions.
RECURSIVE CleanUp(_, _)
CleanUp(projects, cleaned_projects) ==
    IF projects = <<>> THEN cleaned_projects
    ELSE LET name == CleanName(Head(projects).name)
         IN  CleanUp(Tail(projects),
                IF name # "" /\ lower(name) \notin existing_names(cleaned_projects)
                   /\ Len(name) > 3
                THEN Append(cleaned_projects, Project(name, Head(projects).description))
                ELSE cleaned_projects)

\* str.replace and re.sub: the text with each match replaced.
RECURSIVE str_replace(_, _, _)
str_replace(s, old, new) ==
    LET i == Find(old, s)
    IN  IF i = 0 THEN s
        ELSE SubSeq(s, 1, i - 1) \o new
             \o str_replace(SubSeq(s, i + Len(old), Len(s)), old, new)
RECURSIVE Stitch(_, _, _, _)
Stitch(text, ms, replacements, pos) ==
    IF ms = <<>> THEN SubSeq(text, pos, Len(text))
    ELSE SubSeq(text, pos, Head(ms).start - 1) \o Head(replacements)
         \o Stitch(text, Tail(ms), Tail(replacements), Head(ms).end)
Groups(text, ms, before, between) ==
    [i \in 1..Len(ms) |->
        before \o group(text, ms[i], 1) \o between \o group(text, ms[i], 2)
        \o group(text, ms[i], 3)]
\* re.sub with a replacement of the form before \1 between \2 \3
sub(pattern, before, between, text) ==
    LET replaced(ms) == Stitch(text, ms, Groups(text, ms, before, between), 1)
    IN  replaced(findall(pattern, text))

\* fix_pdf_extraction_issues: the fixes in the order of the dict, then the
\* three substitutions.
fixes ==
    <<<<"Ques tfi", "Questfi">>, <<"Quest fi", "Questfi">>, <<"Que stfi", "Questfi">>,
      <<"Profile Audit or", "Profile Auditor">>, <<"Profile Audit", "Profile Auditor">>,
      <<"Data\nRoots", "Data Roots">>, <<"Data \nRoots", "Data Roots">>,
      <<"Data\n Roots", "Data Roots">>,
      <<"block chain", "blockchain">>, <<"Block chain", "Blockchain">>,
      <<"real ity", "reality">>, <<"Real ity", "Reality">>,
      <<"plat form", "platform">>, <<"Plat form", "Platform">>,
      <<"net work", "network">>, <<"Net work", "Network">>,
      <<"data base", "database">>, <<"Data base", "Database">>,
      <<"web site", "website">>, <<"Web site", "Website">>,
      <<"app lication", "application">>, <<"App lication", "Application">>,
      <<"ver ification", "verification">>, <<"Ver ification", "Verification">>,
      <<"monetiz ation", "monetization">>, <<"Monetiz ation", "Monetization">>,
      <<"decent ralized", "decentralized">>, <<"Decent ralized", "Decentralized">>,
      <<"shar ing", "sharing">>, <<"Shar ing", "Sharing">>>>
RECURSIVE ApplyFixes(_, _)
ApplyFixes(text, k) ==
    IF k > Len(fixes) THEN text
    ELSE IF ~Contains(fixes[k][1], text) THEN ApplyFixes(text, k + 1)
    ELSE ApplyFixes(str_replace(text, fixes[k][1], fixes[k][2]), k + 1)
\* \b([A-Z])ues tfi\b, \bQues ([a-z]fi)\b and
\* \b([A-Z][a-z]+)\s+([a-z]{2,})\b(?=\s+(?:[A-Z]|<em-dash>|-|$))
questfi_initial == Cat(<<Wb, Group(1, One(OneOf(AZ))), Lit("ues tfi"), Wb>>)
questfi_tail == Cat(<<Wb, Lit("Ques "), Group(1, Cat(<<One(OneOf(az)), Lit("fi")>>)), Wb>>)
broken_compound ==
    Cat(<<Wb, Group(1, Cat(<<One(OneOf(AZ)), Rep(OneOf(az), 1, -1, TRUE)>>)), S1,
          Group(2, Rep(OneOf(az), 2, -1, TRUE)), Wb,
          Look(Cat(<<S1, Alt(<<One(OneOf(AZ)), Lit(SourceEmDash), Lit("-"), Eot>>)>>))>>)
fix_pdf_extraction_issues(text) ==
    IF text = "" THEN text
    ELSE sub(broken_compound, "", "",
             sub(questfi_tail, "Quest", "",
                 sub(questfi_initial, "", "uestfi", ApplyFixes(text, 1))))

\* clean_pdf_text on the characters of a text that holds no NUL and no
\* mis-decoded minus sign: the mis-decoded en-dash becomes the mis-decoded
\* em-dash, runs of blanks become one blank, blanks at line ends go, three
\* or more line breaks become two, single letters are joined to the word
\* that follows them.
Blank == OneOf({" ", "\t"})
single_letters ==
    Cat(<<Wb, Group(1, One(OneOf(Letters))), S1, Group(2, One(OneOf(Letters))), S1,
          Group(3, Rep(OneOf(Letters), 2, -1, TRUE)), Wb>>)
clean_text(text) ==
    IF text = "" THEN ""
    ELSE LET dashes == str_replace(text, Circumflex \o Euro \o LeftQuote, SourceEmDash)
             blanks == sub(Rep(Blank, 1, -1, TRUE), " ", "", dashes)
             leading == sub(Cat(<<Lit("\n"), Rep(Blank, 1, -1, TRUE)>>), "\n", "", blanks)
             trailing == sub(Cat(<<Rep(Blank, 1, -1, TRUE), Lit("\n")>>), "\n", "", leading)
             breaks == sub(Rep(OneOf({"\n"}), 3, -1, TRUE), "\n\n", "", trailing)
         IN  strip_str(sub(single_letters, "", "", breaks))

\* ProjectSpec: extract_projects, stage by stage, on the text of a resume
\* written with each separator in turn.  A resume is a heading (or none),
\* project lines and a following section (or none); a line with an empty
\* description is written without a separator.
separators == <<" - ", " " \o EmDash \o " ", "   ", " " \o SourceEmDash \o " ">>
VariantOf(separator) == CHOOSE v \in 1..Len(separators) : separators[v] = separator
Hyphen == VariantOf(" - ")
RealEmDash == VariantOf(" " \o EmDash \o " ")
ThreeSpaces == VariantOf("   ")
SourceEmDashVariant == VariantOf(" " \o SourceEmDash \o " ")
ScenarioLines ==
    <<Project("Data Roots", "Decentralized Data Sharing & Monetization platform[Link]."),
      Project("Questfi", "Blockchain bounty platform on U2U Network for task creation and payments [Link].")>>
ShortLines ==
    <<Project("Data Roots", "Decentralized data sharing platform"),
      Project("Questfi", "Blockchain bounty platform")>>
ProjectLineSets ==
    {ScenarioLines, ShortLines, <<Project("Shop", "An online store")>>,
     <<Project("Profile Auditor", "Resume checks")>>, <<Project("see my portfolio", "")>>}
Headings == {"", "PROJECTS\n"}
Achievements == "\nACHIEVEMENTS\nHackathon - Third prize"
Internship == "\nINTERNSHIP\nAcme Corp - Backend services"
FollowingSections ==
    {"", Achievements, "\nEXPERIENCE\nAcme Corp - Backend services", Internship,
     "\nSocial Handles\nBlog - Writing on data tools"}
Resumes ==
    {[heading |-> h, lines |-> ls, following |-> f] :
        h \in Headings, ls \in ProjectLineSets, f \in FollowingSections}
RECURSIVE Written(_, _)
Written(lines, separator) ==
    IF lines = <<>> THEN ""
    ELSE LET line == lines[Len(lines)]
             written == IF line.description = "" THEN line.name
                        ELSE line.name \o separator \o line.description
         IN  IF Len(lines) = 1 THEN written
             ELSE Written(Front(lines), separator) \o "\n" \o written
TextOf(resume, variant) ==
    resume.heading \o Written(resume.lines, separators[variant]) \o resume.following

Extraction(resume, variant) ==
    [pc |-> "text", variant |-> variant, text |-> TextOf(resume, variant), projects |-> <<>>,
     sections |-> <<>>, m |-> 0, stages |-> <<>>]
ProjectInit ==
    /\ resume_storage = NoStore
    /\ verification_storage = NoStore
    /\ score_storage = NoStore
    /\ response = NoResponse
    /\ gemini = NoStore
    /\ temp_files = NoStore
    /\ lib = AllAvailable
    /\ calls = NoStore
    /\ returned = <<>>
    /\ \E resume \in Resumes, pdf \in BOOLEAN :
          /\ feed = [resume |-> resume, pdf |-> pdf]
          /\ task = Extraction(resume, 1)

Stage(name) == [stage |-> name, before |-> Len(task.projects)]
\* extract_text_from_pdf: the text goes through clean_pdf_text.
CleanText ==
    /\ task.pc = "text" /\ feed.pdf
    /\ task' = [task EXCEPT !.pc = "called", !.text = clean_text(@)]
    /\ UNCHANGED <<resume_storage, verification_storage, score_storage, response, gemini, feed, temp_files, lib, calls, returned>>
\* extract_projects, line 579
FixText ==
    /\ task.pc = "called" \/ (task.pc = "text" /\ ~feed.pdf)
    /\ task' = [task EXCEPT !.pc = "fixed", !.text = fix_pdf_extraction_issues(@)]
    /\ UNCHANGED <<resume_storage, verification_storage, score_storage, response, gemini, feed, temp_files, lib, calls, returned>>
\* lines 585-653
ScanText ==
    /\ task.pc = "fixed"
    /\ task' = [task EXCEPT !.pc = "scanned", !.projects = WholeTextDashes(task.text),
                            !.stages = Append(@, Stage("text_dashes"))]
    /\ UNCHANGED <<resume_storage, verification_storage, score_storage, response, gemini, feed, temp_files, lib, calls, returned>>
\* lines 656-667
FindSections ==
    /\ task.pc = "scanned"
    /\ LET project_matches == ProjectSections(task.text)
       IN  task' = [task EXCEPT !.sections = project_matches, !.m = 1,
                                !.pc = IF project_matches = <<>> THEN "searched" ELSE "section"]
    /\ UNCHANGED <<resume_storage, verification_storage, score_storage, response, gemini, feed, temp_files, lib, calls, returned>>
\* lines 669-722
SectionDash ==
    /\ task.pc = "section"
    /\ task' = [task EXCEPT !.pc = "dashed",
                            !.projects = SectionDashes(task.sections[task.m], @),
                            !.stages = Append(@, Stage("section_dashes"))]
    /\ UNCHANGED <<resume_storage, verification_storage, score_storage, response, gemini, feed, temp_files, lib, calls, returned>>
\* lines 724-740
SectionParse ==
    /\ task.pc = "dashed"
    /\ task' = [task EXCEPT !.pc = "parsed",
                            !.projects = SectionLines(task.sections[task.m], @),
                            !.stages = Append(@, Stage("section_lines"))]
    /\ UNCHANGED <<resume_storage, verification_storage, score_storage, response, gemini, feed, temp_files, lib, calls, returned>>
\* lines 742-806, and the next match of the section pattern if there is one
SectionCut ==
    /\ task.pc = "parsed"
    /\ task' = [task EXCEPT !.pc = IF task.m < Len(task.sections) THEN "section" ELSE "searched",
                            !.m = @ + 1,
                            !.projects = SectionSplit(task.sections[task.m], @),
                            !.stages = Append(@, Stage("section_split"))]
    /\ UNCHANGED <<resume_storage, verification_storage, score_storage, response, gemini, feed, temp_files, lib, calls, returned>>
\* lines 809-812
FullTextScan ==
    /\ task.pc = "searched"
    /\ task' = IF task.projects # <<>> THEN [task EXCEPT !.pc = "full"]
               ELSE [task EXCEPT !.pc = "full",
                                 !.projects = extract_projects_from_full_text(task.text),
                                 !.stages = Append(@, Stage("full_text"))]
    /\ UNCHANGED <<resume_storage, verification_storage, score_storage, response, gemini, feed, temp_files, lib, calls, returned>>
\* lines 814-873
PdfScan ==
    /\ task.pc = "full"
    /\ task' = IF task.projects # <<>> THEN [task EXCEPT !.pc = "found"]
               ELSE [task EXCEPT !.pc = "found", !.projects = PdfFallback(task.text),
                                 !.stages = Append(@, Stage("pdf_lines"))]
    /\ UNCHANGED <<resume_storage, verification_storage, score_storage, response, gemini, feed, temp_files, lib, calls, returned>>
\* lines 875-896: returned holds, per separator, what the call returned
\* and the stages it went through.
ReturnProjects ==
    /\ task.pc = "found"
    /\ returned' = Append(returned, [projects |-> CleanUp(task.projects, <<>>),
                                     sections |-> task.sections, stages |-> task.stages])
    /\ task' = [task EXCEPT !.pc = "returned"]
    /\ UNCHANGED <<resume_storage, verification_storage, score_storage, response, gemini, feed, temp_files, lib, calls>>
\* The same resume with the next separator.
NextVariant ==
    /\ task.pc = "returned" /\ task.variant < Len(separators)
    /\ task' = Extraction(feed.resume, task.variant + 1)
    /\ UNCHANGED <<resume_storage, verification_storage, score_storage, response, gemini, feed, temp_files, lib, calls, returned>>
ProjectNext ==
    \/ CleanText
    \/ FixText
    \/ ScanText
    \/ FindSections
    \/ SectionDash
    \/ SectionParse
    \/ SectionCut
    \/ FullTextScan
    \/ PdfScan
    \/ ReturnProjects
    \/ NextVariant
ProjectSpec == ProjectInit /\ [][ProjectNext]_vars

NameSet(projects) == {projects[i].name : i \in 1..Len(projects)}
StagesOf(result) == [i \in 1..Len(result.stages) |-> result.stages[i].stage]
Described(lines) == \A i \in 1..Len(lines) : lines[i].description # ""

\* C25: the stages run in a fixed order, each later stage (the line
\* parser of the section, the space-segmented split, the PDF fallback) only
\* when the stages before it found no project, and the full-text scan only
\* when the text has no Projects section.
later_stages == {"section_lines", "section_split", "pdf_lines"}
C25_LaterStageOnlyAfterNothing ==
    \A k \in 1..Len(returned) :
        /\ \A i \in 1..Len(returned[k].stages) :
              returned[k].stages[i].stage \in later_stages => returned[k].stages[i].before = 0
        /\ "full_text" \in {returned[k].stages[i].stage : i \in 1..Len(returned[k].stages)}
              => returned[k].sections = <<>>
\* The dash patterns found a project in the section and the line parser of
\* the section ran all the same.
C25_Witness ==
    \E k \in 1..Len(returned) : \E i \in 1..(Len(returned[k].stages) - 1) :
        /\ returned[k].stages[i].stage = "section_dashes"
        /\ returned[k].stages[i + 1].stage = "section_lines"
        /\ returned[k].stages[i + 1].before > returned[k].stages[i].before
\* The full-text scan ran on a text that has a Projects section.
C25_FullTextWithSection ==
    \E k \in 1..Len(returned) :
        /\ returned[k].sections # <<>>
        /\ "full_text" \in {returned[k].stages[i].stage : i \in 1..Len(returned[k].stages)}
\* What holds: the order of the stages is fixed, the three stages of a
\* section always run together, and the full-text scan and the PDF
\* fallback start with no project found.
C25_FixedOrder ==
    \A k \in 1..Len(returned) :
        LET logged == returned[k].stages
            n == Len(returned[k].sections)
            tail == SubSeq(logged, 3 * n + 2, Len(logged))
        IN  /\ Len(logged) >= 3 * n + 1
            /\ logged[1].stage = "text_dashes"
            /\ \A m \in 1..n :
                  /\ logged[3 * m - 1].stage = "section_dashes"
                  /\ logged[3 * m].stage = "section_lines"
                  /\ logged[3 * m + 1].stage = "section_split"
            /\ StagesOf([stages |-> tail]) \in
                  {<<>>, <<"full_text">>, <<"full_text", "pdf_lines">>}
            /\ \A i \in 1..Len(tail) : tail[i].before = 0

\* C22: the same project lines written with an em-dash, with a hyphen and
\* with three spaces give the same project names, also for a text that went
\* through clean_pdf_text.
C22_SameNamesForEverySeparator ==
    Described(feed.resume.lines) /\ Len(returned) >= ThreeSpaces
        => /\ NameSet(returned[RealEmDash].projects) = NameSet(returned[Hyphen].projects)
           /\ NameSet(returned[ThreeSpaces].projects) = NameSet(returned[Hyphen].projects)
\* One line, no heading, no other section: the hyphen gives the project,
\* the em-dash gives nothing.
C22_Witness ==
    /\ feed.resume = [heading |-> "", lines |-> <<Project("Shop", "An online store")>>, following |-> ""]
    /\ Len(returned) >= ThreeSpaces
    /\ NameSet(returned[Hyphen].projects) = {"Shop"}
    /\ returned[RealEmDash].projects = <<>>
\* The same with the em-dash as the source file spells it, under a
\* PROJECTS heading: the three spaces give a second name.
C22_SourceSpellingDiffers ==
    /\ feed.resume = [heading |-> "PROJECTS\n", lines |-> <<Project("Shop", "An online store")>>, following |-> ""]
    /\ Len(returned) >= SourceEmDashVariant
    /\ NameSet(returned[SourceEmDashVariant].projects) = {"Shop"}
    /\ NameSet(returned[Hyphen].projects) = {"Shop"}
    /\ NameSet(returned[ThreeSpaces].projects) # {"Shop"}

\* C21: for a PROJECTS section of "Name - description" lines written with
\* an em-dash and followed by another section with dash-separated lines,
\* the projects returned are those of the PROJECTS section, each with its
\* name and a description that is not empty, and nothing else.
em_dash_variants == {RealEmDash, SourceEmDashVariant}
C21_Scenario ==
    /\ feed.resume.heading = "PROJECTS\n"
    /\ feed.resume.following # ""
    /\ Described(feed.resume.lines)
C21_SectionProjectsOnly ==
    C21_Scenario =>
        \A v \in em_dash_variants :
            v <= Len(returned) =>
                /\ Len(returned[v].projects) = Len(feed.resume.lines)
                /\ NameSet(returned[v].projects) = NameSet(feed.resume.lines)
                /\ \A i \in 1..Len(returned[v].projects) : returned[v].projects[i].description # ""
\* The two lines of the scenario followed by an INTERNSHIP section: the
\* line of the internship is returned as a third project.
C21_Witness ==
    /\ C21_Scenario
    /\ feed.resume.lines = ScenarioLines
    /\ feed.resume.following = Internship
    /\ Len(returned) >= SourceEmDashVariant
    /\ \A v \in em_dash_variants :
          NameSet(returned[v].projects) = {"Data Roots", "Questfi", "Acme Corp"}
\* What holds: the two lines of the scenario followed by the ACHIEVEMENTS
\* section give the two projects and nothing of the achievements.
C21_ScenarioWithAchievements ==
    /\ C21_Scenario
    /\ feed.resume.lines = ScenarioLines
    /\ feed.resume.following = Achievements
    => \A v \in em_dash_variants :
          v <= Len(returned) =>
              /\ Len(returned[v].projects) = Len(ScenarioLines)
              /\ NameSet(returned[v].projects) = {"Data Roots", "Questfi"}
              /\ \A i \in 1..Len(returned[v].projects) : returned[v].projects[i].description # ""

====
